---- MODULE Spec2Model ----
(***************************************************************************)
(* State-machine model of .github/scripts/benchmark_runner.py:             *)
(*   - the metrics file written by the external benchmark process and      *)
(*     followed by `tail -f -n +1`,                                        *)
(*   - MetricsWatcher (reader thread, three threading.Event latches,       *)
(*     phase_records, error_message),                                      *)
(*   - threads blocked in wait_for_warmup_done / wait_for_steady_done,     *)
(*   - BenchmarkRunner.run, the orchestrating thread.                      *)
(* Every step of the reader thread that writes shared state is one action, *)
(* so that the interleavings other threads can observe are all there.      *)
(***************************************************************************)
EXTENDS Integers, Sequences, FiniteSets

VARIABLES
    exists,             \* the metrics path exists (the benchmark opened it)
    file,               \* the lines written to the metrics file so far
    pos,                \* number of the last line of the file the reader thread took from tail's pipe
    tail_process,       \* MetricsWatcher.tail_process: "None" or "Popen"
    tail_alive,         \* the tail child process is running
    rpc,                \* position of the reader thread (watcher_thread) in _read_loop/_process_line
    cur,                \* the line the reader thread is processing
    warmup_done_event,  \* threading.Event flags
    steady_done_event,
    error_event,
    error_message,      \* << >> for None, else <<phase_id, error_msg>>
    phase_records,      \* phase id -> latest stored record (NoRecord when absent)
    wpc,                \* waiter threads: "idle", "waiting", "returned"
    wphase,             \* the phase each waiter waits on
    opc,                \* position of BenchmarkRunner.run
    oerr,               \* what the orchestrator's last has_error() returned: "unread", "True", "False"
    mon,                \* MonitoringManager of the run: "none", "starting", "running", "stopping", "stopped"
    benchmark_proc,     \* "None" until run_benchmark has launched the benchmark
    exc,                \* the exception run() is unwinding with: << >> for none
    cleanup,            \* the calls made by the finally clause of run(), in order
    \* a MonitoringManager instance and the collector processes it owns
    mpc,                \* position inside start_all / stop_all, "idle" between calls
    benchmark_pid,      \* self.benchmark_pid, "unset" while the attribute does not exist
    processes,          \* keys of self.processes
    file_handles,       \* keys of self._file_handles
    open_handles,       \* the keys whose file handle is open
    hardware_perf_available,
    collapsed_stacks_file,  \* "None" or the path
    proc_state,         \* collector -> "none", "running", "zombie" (dead, not waited for), "reaped"
    events,             \* collector -> the signals sent to it and the waits on it, in order
    asprof_cmds,        \* the asprof commands issued, in order
    perf_events,        \* the -e argument perf stat was launched with, "none" before
    probes,             \* number of runs of the hardware-counter probe
    probe_result,       \* what the last probe run gave
    entered,            \* the start_* methods entered
    start_result,       \* "none", "returned", "raised": how start_all ended
    stop_results,       \* how each stop_all call ended, in order
    to_stop,            \* keys of self.processes when the current stop_all was entered
    stop_attempted,     \* collectors the current stop_all has tried to stop
    \* one call of convert_collapsed_to_nested_set
    corpus,             \* the lines of the collapsed-stacks file
    readable,           \* open(collapsed_file) succeeds
    apc,                \* position inside the call
    lineno,             \* number of lines taken from the file
    tree,               \* the nodes under root, root first, in order of creation
    rows,               \* the rows handed to the csv writer
    agg_result,         \* "none", "True", "False": what the call returned
    \* the thread that calls MetricsWatcher.start() and stop()
    stpc,               \* position inside start(): "none" before the call, "returned" after
    kpc,                \* position inside stop(), "idle" between calls
    stops,              \* number of stop() calls that have returned
    tail_log,           \* what stop() did to the tail process, in order
    delivered           \* the lines the read loop has taken from tail, in order

watcherVars == <<tail_process, tail_alive, rpc, cur, pos, warmup_done_event,
                 steady_done_event, error_event, error_message, phase_records>>
fileVars == <<exists, file>>
waitVars == <<wpc, wphase>>
runVars == <<opc, oerr, mon, benchmark_proc, exc, cleanup>>
aggVars == <<corpus, readable, apc, lineno, tree, rows, agg_result>>
stopVars == <<stpc, kpc, stops, tail_log, delivered>>
nonMonVars == <<fileVars, watcherVars, waitVars, runVars, aggVars, stopVars>>
monVars == <<mpc, benchmark_pid, processes, file_handles, open_handles,
             hardware_perf_available, collapsed_stacks_file, proc_state, events,
             asprof_cmds, perf_events, probes, probe_result, entered, start_result,
             stop_results, to_stop, stop_attempted>>
nonAggVars == <<fileVars, watcherVars, waitVars, runVars, monVars, stopVars>>
vars == <<exists, file, pos, tail_process, tail_alive, rpc, cur, warmup_done_event,
          steady_done_event, error_event, error_message, phase_records,
          wpc, wphase, opc, oerr, mon, benchmark_proc, exc, cleanup,
          mpc, benchmark_pid, processes, file_handles, open_handles,
          hardware_perf_available, collapsed_stacks_file, proc_state, events,
          asprof_cmds, perf_events, probes, probe_result, entered, start_result,
          stop_results, to_stop, stop_attempted,
          corpus, readable, apc, lineno, tree, rows, agg_result,
          stpc, kpc, stops, tail_log, delivered>>

-----------------------------------------------------------------------------
(* Bounds *)

\* lines the benchmark writes in the watcher specification
MaxLines == 3
\* lines the benchmark writes in the waiter specification
MaxWaitLines == 3
\* lines the benchmark writes in the run specification
MaxRunLines == 4
\* threads calling wait_for_*
NumWaiters == 2

Waiters == 1..NumWaiters

\* the collector processes of MonitoringManager, in the order start_all creates them
Collectors == {"mpstat", "iostat", "sar_network", "perf_stat"}

-----------------------------------------------------------------------------
(* Lines of the metrics file.                                              *)
(*  form   "csv"      delimited text (mock_benchmark.py), not JSON          *)
(*         "scalar"   JSON that is not an object ([1], 42, "x", null)       *)
(*         "badphase" JSON object whose "phase" is not an object            *)
(*         "obj"      JSON object whose "phase" is an object (or absent)    *)
(*  id, status  the two leading fields (csv) or phase.id / phase.status;   *)
(*         "absent" when the key is missing                                 *)
(*  totals "obj" (absent or an object of numbers) or "bad" (anything else)  *)
(*  error  the "error" member, "absent" when missing                        *)
(*  n      the line number, standing for the rest of the payload           *)

Rec(form, id, status, totals, error, n) ==
    [form |-> form, id |-> id, status |-> status, totals |-> totals, error |-> error, n |-> n]

NoRecord == Rec("none", "absent", "absent", "obj", "absent", 0)

TrackedPhases == {"WARMUP", "STEADY"}
PhaseKeys == {"WARMUP", "STEADY", "COOLDOWN", "UNKNOWN"}

\* mock_benchmark.py: writer.writeheader() and write_row(..., "running" | "done", ...)
CsvLines(n) ==
    { Rec("csv", "phase", "status", "obj", "absent", n),
      Rec("csv", "WARMUP", "done", "obj", "absent", n) }

\* lines json.loads accepts but that are no phase record
MalformedJsonLines(n) ==
    { Rec("scalar", "absent", "absent", "obj", "absent", n),
      Rec("badphase", "absent", "absent", "obj", "absent", n) }

\* structured records {"phase": {"id": .., "status": ..}, ..}
RecordLines(n) ==
    { Rec("obj", id, st, "obj", IF st = "ERROR" THEN "boom" ELSE "absent", n) :
        id \in {"WARMUP", "STEADY", "COOLDOWN", "absent"},
        st \in {"RUNNING", "COMPLETED", "ERROR"} }

\* completion records whose "totals" member is not an object
BadTotalsLines(n) ==
    { Rec("obj", id, "COMPLETED", "bad", "absent", n) : id \in TrackedPhases }

AllLines(n) == CsvLines(n) \cup MalformedJsonLines(n) \cup RecordLines(n) \cup BadTotalsLines(n)

\* the records a waiter can be released by, and one that releases nobody
WaitLines(n) ==
    { Rec("obj", "WARMUP", "COMPLETED", "obj", "absent", n),
      Rec("obj", "STEADY", "COMPLETED", "obj", "absent", n),
      Rec("obj", "STEADY", "RUNNING", "obj", "absent", n),
      Rec("obj", "STEADY", "ERROR", "obj", "boom", n),
      Rec("obj", "WARMUP", "COMPLETED", "bad", "absent", n) }

\* the records of a run of the two-phase protocol
RunLines(n) ==
    { Rec("obj", id, st, "obj", IF st = "ERROR" THEN "boom" ELSE "absent", n) :
        id \in TrackedPhases, st \in {"RUNNING", "COMPLETED", "ERROR"} }

-----------------------------------------------------------------------------
(* Pure helpers of _process_line *)

\* json.loads(line): raises JSONDecodeError on text that is not JSON
JsonLoads(line) == line.form # "csv"

\* phase_info.get("id", "UNKNOWN")
PhaseId(line) == IF line.id = "absent" THEN "UNKNOWN" ELSE line.id

\* phase_info.get("status", "UNKNOWN")
Status(line) == IF line.status = "absent" THEN "UNKNOWN" ELSE line.status

\* record.get("error", "Unknown error")
ErrorMsg(line) == IF line.error = "absent" THEN "Unknown error" ELSE line.error

\* (mutant) set() as a toggle
EventToggle(flag) == ~flag

\* threading.Event.set() / is_set(): the flag after set(), whatever it was
EventSet(flag) == TRUE
IsSet(flag) == flag

\* where _process_line goes with a line: the except clause returns, a missing
\* .get attribute raises AttributeError out of the thread, else the branch on status
Dispatch(line) ==
    IF ~JsonLoads(line) THEN "r426"
    ELSE IF line.form \in {"scalar", "badphase"} THEN "crashed"
    ELSE IF Status(line) = "ERROR" THEN "e444"
    ELSE IF Status(line) = "COMPLETED" THEN "c452"
    ELSE "r426"

-----------------------------------------------------------------------------
InitState ==
    /\ exists = FALSE
    /\ file = << >>
    /\ pos = 0
    /\ tail_process = "None"
    /\ tail_alive = FALSE
    /\ rpc = "none"
    /\ cur = NoRecord
    /\ warmup_done_event = FALSE
    /\ steady_done_event = FALSE
    /\ error_event = FALSE
    /\ error_message = << >>
    /\ phase_records = [k \in PhaseKeys |-> NoRecord]
    /\ wpc = [w \in Waiters |-> "idle"]
    /\ wphase = [w \in Waiters |-> "WARMUP"]
    /\ opc = "o1134"
    /\ oerr = "unread"
    /\ mon = "none"
    /\ benchmark_proc = "None"
    /\ exc = << >>
    /\ cleanup = << >>
    /\ mpc = "idle"
    /\ benchmark_pid = "unset"
    /\ processes = {}
    /\ file_handles = {}
    /\ open_handles = {}
    /\ hardware_perf_available = FALSE
    /\ collapsed_stacks_file = "None"
    /\ proc_state = [c \in Collectors |-> "none"]
    /\ events = [c \in Collectors |-> << >>]
    /\ asprof_cmds = << >>
    /\ perf_events = "none"
    /\ probes = 0
    /\ probe_result = "none"
    /\ entered = {}
    /\ start_result = "none"
    /\ stop_results = << >>
    /\ to_stop = {}
    /\ stop_attempted = {}
    /\ apc = "a786"
    /\ lineno = 0
    /\ tree = << >>
    /\ rows = << >>
    /\ agg_result = "none"
    /\ stpc = "none"
    /\ kpc = "idle"
    /\ stops = 0
    /\ tail_log = << >>
    /\ delivered = << >>

\* no stacks file is converted
Init ==
    /\ InitState
    /\ corpus = << >>
    /\ readable = TRUE

-----------------------------------------------------------------------------
(* The external benchmark process *)

\* open(args.output, "w"): the metrics path comes into existence
CreateFile ==
    /\ ~exists
    /\ exists' = TRUE
    /\ UNCHANGED <<file, watcherVars, waitVars, runVars, monVars, aggVars, stopVars>>

\* one more line is appended and flushed
WriteLine(line, max) ==
    /\ exists
    /\ Len(file) < max
    /\ file' = Append(file, line)
    /\ UNCHANGED <<exists, watcherVars, waitVars, runVars, monVars, aggVars, stopVars>>

-----------------------------------------------------------------------------
(* MetricsWatcher *)

\* (mutant) tail -n 0: only what is appended after tail started
TailFromEnd(f) == Len(f) + 1

\* line 377: with -n +1 tail's output starts at line 1 of the file
TailFirstLine(f) == 1

\* start(): waits until the path exists, spawns tail, starts the reader thread
StartEffect ==
    /\ exists
    /\ rpc = "none"
    /\ tail_process' = "Popen"
    /\ tail_alive' = TRUE
    /\ pos' = TailFirstLine(file) - 1
    /\ rpc' = "r417"
    /\ UNCHANGED <<cur, warmup_done_event, steady_done_event, error_event,
                   error_message, phase_records, monVars, aggVars,
                   kpc, stops, tail_log, delivered>>

Start ==
    /\ StartEffect
    /\ UNCHANGED <<fileVars, waitVars, runVars, monVars, aggVars, stpc>>

\* _read_loop, line 417: if not self.tail_process: return
ReadLoopEnter ==
    /\ rpc = "r417"
    /\ rpc' = IF tail_process = "None" THEN "done" ELSE "r420"
    /\ UNCHANGED <<tail_process, tail_alive, cur, pos, warmup_done_event, steady_done_event,
                   error_event, error_message, phase_records, fileVars, waitVars, runVars, monVars, aggVars, stopVars>>

\* line 420: self.tail_process.stdout is evaluated once, when the for loop starts
ReadLoopIter ==
    /\ rpc = "r420"
    /\ rpc' = IF tail_process = "None" THEN "crashed" ELSE "loop"
    /\ UNCHANGED <<tail_process, tail_alive, cur, pos, warmup_done_event, steady_done_event,
                   error_event, error_message, phase_records, fileVars, waitVars, runVars, monVars, aggVars, stopVars>>

\* lines 420-442: the next line arrives from tail, is parsed and dispatched
ReadLine ==
    /\ rpc = "loop"
    /\ tail_alive
    /\ pos < Len(file)
    /\ pos' = pos + 1
    /\ cur' = file[pos + 1]
    /\ rpc' = Dispatch(file[pos + 1])
    /\ delivered' = Append(delivered, file[pos + 1])
    /\ UNCHANGED <<tail_process, tail_alive, warmup_done_event, steady_done_event,
                   error_event, error_message, phase_records, fileVars, waitVars, runVars,
                   monVars, aggVars, stpc, kpc, stops, tail_log>>

\* line 444
ErrorSetMessage ==
    /\ rpc = "e444"
    /\ error_message' = <<PhaseId(cur), ErrorMsg(cur)>>
    /\ rpc' = "e446"
    /\ UNCHANGED <<tail_process, tail_alive, cur, pos, warmup_done_event, steady_done_event,
                   error_event, phase_records, fileVars, waitVars, runVars, monVars, aggVars, stopVars>>

\* line 446
ErrorStoreRecord ==
    /\ rpc = "e446"
    /\ phase_records' = [phase_records EXCEPT ![PhaseId(cur)] = cur]
    /\ rpc' = "e447"
    /\ UNCHANGED <<tail_process, tail_alive, cur, pos, warmup_done_event, steady_done_event,
                   error_event, error_message, fileVars, waitVars, runVars, monVars, aggVars, stopVars>>

\* (mutant) the ERROR branch without line 447
ErrorSkipErrorEvent ==
    /\ rpc = "e447"
    /\ rpc' = "e449"
    /\ UNCHANGED <<tail_process, tail_alive, cur, pos, warmup_done_event, steady_done_event,
                   error_event, error_message, phase_records, fileVars, waitVars, runVars, monVars, aggVars, stopVars>>

\* line 447
ErrorSetErrorEvent ==
    /\ rpc = "e447"
    /\ error_event' = EventSet(error_event)
    /\ rpc' = "e449"
    /\ UNCHANGED <<tail_process, tail_alive, cur, pos, warmup_done_event, steady_done_event,
                   error_message, phase_records, fileVars, waitVars, runVars, monVars, aggVars, stopVars>>

\* (mutant) the ERROR branch without line 449
ErrorSkipWarmup ==
    /\ rpc = "e449"
    /\ rpc' = "e450"
    /\ UNCHANGED <<tail_process, tail_alive, cur, pos, warmup_done_event, steady_done_event,
                   error_event, error_message, phase_records, fileVars, waitVars, runVars, monVars, aggVars, stopVars>>

\* line 449
ErrorSetWarmup ==
    /\ rpc = "e449"
    /\ warmup_done_event' = EventSet(warmup_done_event)
    /\ rpc' = "e450"
    /\ UNCHANGED <<tail_process, tail_alive, cur, pos, steady_done_event, error_event,
                   error_message, phase_records, fileVars, waitVars, runVars, monVars, aggVars, stopVars>>

\* (mutant) line 450 left out
ErrorSteadyFlagKept == steady_done_event

\* the flag of steady_done_event after line 450
ErrorSteadyFlag == EventSet(steady_done_event)

\* line 450
ErrorSetSteady ==
    /\ rpc = "e450"
    /\ steady_done_event' = ErrorSteadyFlag
    /\ rpc' = "r426"
    /\ UNCHANGED <<tail_process, tail_alive, cur, pos, warmup_done_event, error_event,
                   error_message, phase_records, fileVars, waitVars, runVars, monVars, aggVars, stopVars>>

\* (mutant) the record stored only inside the if/elif, for a phase not yet latched
CompletedRecordsIfUnlatched ==
    IF \/ PhaseId(cur) = "WARMUP" /\ ~warmup_done_event
       \/ PhaseId(cur) = "STEADY" /\ ~steady_done_event
    THEN [phase_records EXCEPT ![PhaseId(cur)] = cur]
    ELSE phase_records

\* line 452: the record is stored whether or not the phase is already latched
CompletedRecords == [phase_records EXCEPT ![PhaseId(cur)] = cur]

CompletedStoreRecord ==
    /\ rpc = "c452"
    /\ phase_records' = CompletedRecords
    /\ rpc' = "c454"
    /\ UNCHANGED <<tail_process, tail_alive, cur, pos, warmup_done_event, steady_done_event,
                   error_event, error_message, fileVars, waitVars, runVars, monVars, aggVars, stopVars>>

\* lines 455-457 and 460-462: totals.get(...) on a "totals" that is no object
\* raises AttributeError before the latch is set
TotalsPrintRaises(line) == line.totals = "bad"

\* (mutant) any completion record taken for the end of the steady phase
CompletedLatchAnyPhase ==
    IF PhaseId(cur) = "WARMUP"
    THEN <<TRUE, steady_done_event, "r426">>
    ELSE <<warmup_done_event, TRUE, "r426">>

\* (mutant) the two events exchanged
CompletedLatchSwapped ==
    IF PhaseId(cur) = "WARMUP" /\ ~steady_done_event
    THEN <<warmup_done_event, TRUE, "r426">>
    ELSE IF PhaseId(cur) = "STEADY" /\ ~warmup_done_event
    THEN <<TRUE, steady_done_event, "r426">>
    ELSE <<warmup_done_event, steady_done_event, "r426">>

\* lines 454-463: <<warmup flag, steady flag, next position>> after the if/elif
CompletedLatch ==
    IF PhaseId(cur) = "WARMUP" /\ ~IsSet(warmup_done_event)
    THEN IF TotalsPrintRaises(cur)
         THEN <<warmup_done_event, steady_done_event, "crashed">>
         ELSE <<EventSet(warmup_done_event), steady_done_event, "r426">>
    ELSE IF PhaseId(cur) = "STEADY" /\ ~IsSet(steady_done_event)
    THEN IF TotalsPrintRaises(cur)
         THEN <<warmup_done_event, steady_done_event, "crashed">>
         ELSE <<warmup_done_event, EventSet(steady_done_event), "r426">>
    ELSE <<warmup_done_event, steady_done_event, "r426">>

CompletedSetLatch ==
    /\ rpc = "c454"
    /\ warmup_done_event' = CompletedLatch[1]
    /\ steady_done_event' = CompletedLatch[2]
    /\ rpc' = CompletedLatch[3]
    /\ UNCHANGED <<tail_process, tail_alive, cur, pos, error_event, error_message,
                   phase_records, fileVars, waitVars, runVars, monVars, aggVars, stopVars>>

\* (mutant) the loop without its break
LoopNeverBreaks == FALSE

\* (mutant) the loop ending only on an ERROR record
LoopBreaksOnError == IsSet(error_event)

\* line 426: break when both phase latches are set
LoopBreaks == IsSet(warmup_done_event) /\ IsSet(steady_done_event)

ReadLoopCheck ==
    /\ rpc = "r426"
    /\ rpc' = IF LoopBreaks THEN "done" ELSE "loop"
    /\ UNCHANGED <<tail_process, tail_alive, cur, pos, warmup_done_event, steady_done_event,
                   error_event, error_message, phase_records, fileVars, waitVars, runVars, monVars, aggVars, stopVars>>

Reader ==
    \/ ReadLoopEnter
    \/ ReadLoopIter
    \/ ReadLine
    \/ ErrorSetMessage
    \/ ErrorStoreRecord
    \/ ErrorSetErrorEvent
    \/ ErrorSetWarmup
    \/ ErrorSetSteady
    \/ CompletedStoreRecord
    \/ CompletedSetLatch
    \/ ReadLoopCheck

\* get_phase_record(phase_id): None is NoRecord
get_phase_record(p) == phase_records[p]

\* get_all_phase_records(): the keys present in the dict
get_all_phase_records == { k \in PhaseKeys : phase_records[k] # NoRecord }

\* has_error()
has_error == IsSet(error_event)

\* get_error()
get_error == error_message

-----------------------------------------------------------------------------
(* Threads calling wait_for_warmup_done / wait_for_steady_done *)

\* (mutant) a wait that also returns once the reader thread has ended
LatchOrReaderEnded(p) ==
    \/ (IF p = "WARMUP" THEN warmup_done_event ELSE steady_done_event)
    \/ rpc \in {"done", "crashed"}

\* lines 398-402: the Event each wait_for_* method waits on, without a timeout
Latch(p) == IF p = "WARMUP" THEN warmup_done_event ELSE steady_done_event

\* a thread enters Event.wait() of phase p
WaitCall(w, p) ==
    /\ wpc[w] = "idle"
    /\ wpc' = [wpc EXCEPT ![w] = "waiting"]
    /\ wphase' = [wphase EXCEPT ![w] = p]
    /\ UNCHANGED <<fileVars, watcherVars, runVars, monVars, aggVars, stopVars>>

\* Event.wait() returns once the flag is set; there is no timeout
WaitReturn(w) ==
    /\ wpc[w] = "waiting"
    /\ IsSet(Latch(wphase[w]))
    /\ wpc' = [wpc EXCEPT ![w] = "returned"]
    /\ UNCHANGED <<wphase, fileVars, watcherVars, runVars, monVars, aggVars, stopVars>>

-----------------------------------------------------------------------------
(* BenchmarkRunner.run, the orchestrating thread *)

\* a step of run() that touches nothing but its own position
Goto(from, to) ==
    /\ opc = from
    /\ opc' = to
    /\ UNCHANGED <<cleanup, oerr, mon, benchmark_proc, exc, fileVars, watcherVars, waitVars, monVars, aggVars, stopVars>>

\* line 1134: variance_control.setup(...)
RunSetup == Goto("o1134", "o1141")

\* line 1141: start_infrastructure() returns
RunStartInfra == Goto("o1141", "o1144")

\* line 1027: start_infrastructure() cannot run make (make is not installed, or
\* resp_bench_dir is no directory): subprocess.run raises OSError; control goes
\* to the finally clause
RunStartInfraCannotRun ==
    /\ opc = "o1141"
    /\ opc' = "o1266"
    /\ exc' = <<"OSError">>
    /\ UNCHANGED <<cleanup, oerr, mon, benchmark_proc, fileVars, watcherVars, waitVars, monVars, aggVars, stopVars>>

\* lines 1040, 1049: start_infrastructure() raises; control goes to the finally clause
RunStartInfraFails ==
    /\ opc = "o1141"
    /\ opc' = "o1266"
    /\ exc' = <<"infrastructure">>
    /\ UNCHANGED <<cleanup, oerr, mon, benchmark_proc, fileVars, watcherVars, waitVars, monVars, aggVars, stopVars>>

\* line 1144: run_benchmark() launches the process that writes the metrics file
RunBenchmark ==
    /\ opc = "o1144"
    /\ opc' = "o1147"
    /\ benchmark_proc' = "Popen"
    /\ UNCHANGED <<cleanup, oerr, mon, exc, fileVars, watcherVars, waitVars, monVars, aggVars, stopVars>>

\* lines 1146-1147: MetricsWatcher(benchmark_metrics).start()
RunStartWatcher ==
    /\ opc = "o1147"
    /\ StartEffect
    /\ opc' = "o1150"
    /\ UNCHANGED <<cleanup, oerr, mon, benchmark_proc, exc, fileVars, waitVars, monVars, aggVars, stopVars>>

\* line 1150: wait_for_warmup_done() returns
RunWaitWarmup ==
    /\ IsSet(warmup_done_event)
    /\ Goto("o1150", "o1151")

\* (mutant) the error check after the warm-up wait left out
AfterWarmupCheckIgnored(err) == "o1156"

\* where run() goes after has_error() at line 1151
AfterWarmupCheck(err) == IF err THEN "o1152" ELSE "o1156"

\* line 1151: if metrics_watcher.has_error()
RunCheckWarmupError ==
    /\ opc = "o1151"
    /\ oerr' = IF has_error THEN "True" ELSE "False"
    /\ opc' = AfterWarmupCheck(has_error)
    /\ UNCHANGED <<cleanup, mon, benchmark_proc, exc, fileVars, watcherVars, waitVars, monVars, aggVars, stopVars>>

\* lines 1152, 1161: raise RuntimeError(metrics_watcher.get_error())
RunRaise ==
    /\ opc \in {"o1152", "o1161"}
    /\ exc' = <<"RuntimeError", get_error>>
    /\ opc' = "o1266"
    /\ UNCHANGED <<cleanup, oerr, mon, benchmark_proc, fileVars, watcherVars, waitVars, monVars, aggVars, stopVars>>

\* lines 1155-1156: MonitoringManager(work_dir).start_all(pid) is entered
RunStartAll ==
    /\ opc = "o1156"
    /\ mon' = "starting"
    /\ opc' = "o1156r"
    /\ UNCHANGED <<cleanup, oerr, benchmark_proc, exc, fileVars, watcherVars, waitVars, monVars, aggVars, stopVars>>

\* start_all returns
RunStartAllReturns ==
    /\ opc = "o1156r"
    /\ mon' = "running"
    /\ opc' = "o1159"
    /\ UNCHANGED <<cleanup, oerr, benchmark_proc, exc, fileVars, watcherVars, waitVars, monVars, aggVars, stopVars>>

\* line 1156: start_all raises (a collector could not be launched, lines 628-635 catch
\* nothing); control goes to the finally clause with the collectors launched so far
\* still running
RunStartAllRaises ==
    /\ opc = "o1156r"
    /\ mon' = "start_failed"
    /\ exc' = <<"start_all">>
    /\ opc' = "o1266"
    /\ UNCHANGED <<cleanup, oerr, benchmark_proc, fileVars, watcherVars, waitVars, monVars, aggVars, stopVars>>

\* line 1159: wait_for_steady_done() returns
RunWaitSteady ==
    /\ IsSet(steady_done_event)
    /\ Goto("o1159", "o1160")

\* (mutant) the error check after the steady wait left out
AfterSteadyCheckIgnored(err) == "o1163"

\* where run() goes after has_error() at line 1160
AfterSteadyCheck(err) == IF err THEN "o1161" ELSE "o1163"

\* line 1160: if metrics_watcher.has_error()
RunCheckSteadyError ==
    /\ opc = "o1160"
    /\ oerr' = IF has_error THEN "True" ELSE "False"
    /\ opc' = AfterSteadyCheck(has_error)
    /\ UNCHANGED <<cleanup, mon, benchmark_proc, exc, fileVars, watcherVars, waitVars, monVars, aggVars, stopVars>>

\* line 1163: monitor.stop_all() is entered
RunStopAll ==
    /\ opc = "o1163"
    /\ mon' = "stopping"
    /\ opc' = "o1163r"
    /\ UNCHANGED <<cleanup, oerr, benchmark_proc, exc, fileVars, watcherVars, waitVars, monVars, aggVars, stopVars>>

\* (mutant) run() going back to start_all on the manager it has stopped
AfterStopAllRestarts == "o1156"

\* lines 1163-1164: after monitor.stop_all() run() goes on to metrics_watcher.stop()
AfterStopAll == "o1164"

\* stop_all returns
RunStopAllReturns ==
    /\ opc = "o1163r"
    /\ mon' = "stopped"
    /\ opc' = AfterStopAll
    /\ UNCHANGED <<cleanup, oerr, benchmark_proc, exc, fileVars, watcherVars, waitVars, monVars, aggVars, stopVars>>

\* line 1163: stop_all raises (lines 649-650, 660); control goes to the finally clause
RunStopAllRaises ==
    /\ opc = "o1163r"
    /\ mon' = "stop_failed"
    /\ exc' = <<"stop_all">>
    /\ opc' = "o1266"
    /\ UNCHANGED <<cleanup, oerr, benchmark_proc, fileVars, watcherVars, waitVars, monVars, aggVars, stopVars>>

\* line 1164: metrics_watcher.stop(): tail is terminated (killed after 2 s) and
\* the handle dropped
RunStopWatcher ==
    /\ opc = "o1164"
    /\ tail_alive' = FALSE
    /\ tail_process' = "None"
    /\ opc' = "o1166"
    /\ UNCHANGED <<cleanup, rpc, cur, pos, warmup_done_event, steady_done_event, error_event,
                   error_message, phase_records, oerr, mon, benchmark_proc, exc,
                   fileVars, waitVars, monVars, aggVars, stopVars>>

\* line 1166: benchmark_proc.communicate(timeout=10) returns: the benchmark exited
RunCommunicate == Goto("o1166", "o1173")

\* line 1166: communicate raises TimeoutExpired: the benchmark is still running
\* ten seconds after the steady phase; control goes to the finally clause
RunCommunicateTimesOut ==
    /\ opc = "o1166"
    /\ exc' = <<"TimeoutExpired">>
    /\ opc' = "o1266"
    /\ UNCHANGED <<cleanup, oerr, mon, benchmark_proc, fileVars, watcherVars, waitVars, monVars, aggVars, stopVars>>

\* lines 1169-1184: the collapsed stacks and the flame graph are uploaded
RunUpload == Goto("o1173", "o1187")

\* lines 1187-1256: the results are assembled and written to the output file
RunWriteResults == Goto("o1187", "o1259")

\* line 1259: _publish_to_postgresql(...)
RunPublish == Goto("o1259", "o1266")

\* lines 1166-1259: results are collected, written and published
RunResults ==
    \/ RunCommunicate
    \/ RunCommunicateTimesOut
    \/ RunUpload
    \/ RunWriteResults
    \/ RunPublish

\* lines 1063-1066 and 1266-1267: stop_infrastructure() runs make in resp_bench_dir as
\* start_infrastructure() does at line 1027, and raises the same OSError when
\* that could not be run; the exception leaves the finally clause, and run(),
\* before line 1267
AfterStopInfra(e) == IF e = <<"OSError">> THEN "left" ELSE "o1267"

\* line 1266, in the finally clause: stop_infrastructure()
RunStopInfra ==
    /\ opc = "o1266"
    /\ cleanup' = Append(cleanup, "stop_infrastructure")
    /\ opc' = AfterStopInfra(exc)
    /\ UNCHANGED <<oerr, mon, benchmark_proc, exc, fileVars, watcherVars, waitVars, monVars, aggVars, stopVars>>

\* line 1267: variance_control.teardown()
RunTeardown ==
    /\ opc = "o1267"
    /\ cleanup' = Append(cleanup, "teardown")
    /\ opc' = "done"
    /\ UNCHANGED <<oerr, mon, benchmark_proc, exc, fileVars, watcherVars, waitVars, monVars, aggVars, stopVars>>

Orchestrator ==
    \/ RunSetup
    \/ RunStartInfra
    \/ RunStartInfraCannotRun
    \/ RunStartInfraFails
    \/ RunBenchmark
    \/ RunStartWatcher
    \/ RunWaitWarmup
    \/ RunCheckWarmupError
    \/ RunRaise
    \/ RunStartAll
    \/ RunStartAllReturns
    \/ RunStartAllRaises
    \/ RunWaitSteady
    \/ RunCheckSteadyError
    \/ RunStopAll
    \/ RunStopAllReturns
    \/ RunStopAllRaises
    \/ RunStopWatcher
    \/ RunResults
    \/ RunStopInfra
    \/ RunTeardown

\* the benchmark exists only once run_benchmark has launched it
BenchmarkCreateFile == benchmark_proc = "Popen" /\ CreateFile

BenchmarkWriteLine(line) == benchmark_proc = "Popen" /\ WriteLine(line, MaxRunLines)

-----------------------------------------------------------------------------
(* Specification of the watcher alone: any line, any time *)

Next ==
    \/ CreateFile
    \/ \E line \in AllLines(Len(file) + 1) : WriteLine(line, MaxLines)
    \/ Start
    \/ Reader

Spec == Init /\ [][Next]_vars

(* Specification of the watcher with waiting threads *)

NextWait ==
    \/ CreateFile
    \/ \E line \in WaitLines(Len(file) + 1) : WriteLine(line, MaxWaitLines)
    \/ Start
    \/ Reader
    \/ \E w \in Waiters, p \in TrackedPhases : WaitCall(w, p)
    \/ \E w \in Waiters : WaitReturn(w)

SpecWait == Init /\ [][NextWait]_vars

(* Specification of a whole run: the orchestrator starts the benchmark and the watcher *)

NextRun ==
    \/ BenchmarkCreateFile
    \/ \E line \in RunLines(Len(file) + 1) : BenchmarkWriteLine(line)
    \/ Reader
    \/ Orchestrator

SpecRun == Init /\ [][NextRun]_vars

-----------------------------------------------------------------------------
(* Vocabulary of the claims *)

\* positions of the reader thread inside the ERROR or COMPLETED branch
MidLine == {"e444", "e446", "e447", "e449", "e450", "c452", "c454"}

\* number of lines whose processing is over (returned, or ended by an exception)
Handled == IF rpc \in MidLine THEN pos - 1 ELSE pos

IsCompletion(line, p) == line.form = "obj" /\ line.status = "COMPLETED" /\ line.id = p
IsErrorRecord(line) == line.form = "obj" /\ line.status = "ERROR"
IsDelimitedDone(line, p) == line.form = "csv" /\ line.status = "done" /\ line.id = p
StructurallyInvalid(line) == line.form \in {"csv", "scalar", "badphase"}

ErrorHandled == \E i \in 1..Handled : IsErrorRecord(file[i])

\* the last line among the first k whose key is p and that satisfies Keep
Kept(p, k, keepRunning) ==
    { i \in 1..k : /\ file[i].form = "obj"
                   /\ PhaseId(file[i]) = p
                   /\ (keepRunning \/ Status(file[i]) \in {"COMPLETED", "ERROR"}) }
Latest(p, k, keepRunning) ==
    IF Kept(p, k, keepRunning) = {} THEN NoRecord
    ELSE file[CHOOSE i \in Kept(p, k, keepRunning) :
                 \A j \in Kept(p, k, keepRunning) : j <= i]

-----------------------------------------------------------------------------
(* C1 *)

\* C1: once a completion record for WARMUP or STEADY has been processed, that
\* phase's latch is set and every thread waiting on the phase can return.
C1_CompletionLatches ==
    \A i \in 1..Handled : \A p \in TrackedPhases :
        IsCompletion(file[i], p) =>
            /\ Latch(p)
            /\ \A w \in Waiters :
                  (wpc[w] = "waiting" /\ wphase[w] = p) => ENABLED WaitReturn(w)

(* C2 *)

\* C2: once an ERROR record has been processed, every waiting thread can
\* return, whichever phase it waits on.
C2_ErrorReleasesAll ==
    ErrorHandled => \A w \in Waiters : wpc[w] = "waiting" => ENABLED WaitReturn(w)

\* both waiters returned, on different phases, with no WARMUP completion in the log
C2_Witness ==
    /\ ErrorHandled
    /\ \A i \in 1..Len(file) : ~IsCompletion(file[i], "WARMUP")
    /\ \E w1, w2 \in Waiters :
          /\ wpc[w1] = "returned" /\ wphase[w1] = "WARMUP"
          /\ wpc[w2] = "returned" /\ wphase[w2] = "STEADY"

(* C3 *)

\* C3: a latch that is set stays set in every step, also in a step that sets
\* it again.
C3_LatchesMonotonic ==
    [][ /\ warmup_done_event => warmup_done_event'
        /\ steady_done_event => steady_done_event'
        /\ error_event => error_event' ]_vars

\* line 449 has just set a warm-up latch that a completion record had set before
C3_Witness ==
    /\ rpc = "e450"
    /\ warmup_done_event
    /\ \E i \in 1..(pos - 1) : IsCompletion(file[i], "WARMUP") /\ file[i].totals = "obj"

(* C4 *)

\* C4 (as claimed): in every state, the error latch set implies both phase
\* latches set.
C4_ErrorImpliesPhases ==
    error_event => (warmup_done_event /\ steady_done_event)

\* C4 (amended): once the reader thread is past line 450, the error latch set
\* implies both phase latches set.
C4_ErrorImpliesPhasesAfterBranch ==
    (error_event /\ rpc \notin {"e449", "e450"}) =>
        (warmup_done_event /\ steady_done_event)

\* the error branch is over and only it can have set the phase latches
C4_Witness ==
    /\ error_event
    /\ rpc = "done"
    /\ \A i \in 1..Len(file) : file[i].status # "COMPLETED"

(* C5 *)

\* C5: once an ERROR record has been processed it is stored, the error latch
\* is set, it is the last line the reader takes, and no later step changes the
\* record table, the latches or the error message.
C5_ErrorTerminal ==
    /\ [](ErrorHandled =>
            /\ error_event
            /\ IsErrorRecord(file[pos])
            /\ get_phase_record(PhaseId(file[pos])) = file[pos]
            /\ get_error = <<PhaseId(file[pos]), ErrorMsg(file[pos])>>)
    /\ [][ErrorHandled =>
            UNCHANGED <<pos, phase_records, warmup_done_event, steady_done_event,
                        error_event, error_message>>]_vars

\* an ERROR record was processed and a line written after it stays unread
C5_Witness ==
    /\ ErrorHandled
    /\ rpc = "done"
    /\ pos < Len(file)

(* C6 *)

\* C6: no structurally invalid line ends the read loop: the reader thread
\* never dies on a line that is not JSON, is no JSON object, or whose "phase"
\* is no object.
C6_InvalidLineNotFatal ==
    rpc = "crashed" => ~StructurallyInvalid(cur)

(* C7 *)

\* C7: a processed delimited line `<phase>,done,...` for a tracked phase sets
\* that phase's latch.
C7_DelimitedDoneLatches ==
    \A i \in 1..Handled : \A p \in TrackedPhases :
        IsDelimitedDone(file[i], p) => Latch(p)

(* C8 *)

\* C8 (as claimed): between lines, get_record(p) is the most recent processed
\* record with phase id p, whatever its status.
C8_LatestAnyStatus ==
    rpc \notin MidLine =>
        \A p \in PhaseKeys : get_phase_record(p) = Latest(p, pos, TRUE)

\* C8 (amended): between lines, get_record(p) is the most recent processed
\* record with phase id p whose status is COMPLETED or ERROR, none if there is
\* no such record; and a stored record is never removed.
C8_LatestCompletedOrError ==
    /\ [](rpc \notin MidLine =>
            \A p \in PhaseKeys : get_phase_record(p) = Latest(p, pos, FALSE))
    /\ [][\A p \in PhaseKeys :
            get_phase_record(p) # NoRecord => phase_records'[p] # NoRecord]_vars

\* a second completion record replaced the first and a later RUNNING record
\* left it in place
C8_Witness ==
    /\ rpc = "loop"
    /\ pos = 3
    /\ IsCompletion(file[1], "WARMUP")
    /\ IsCompletion(file[2], "WARMUP")
    /\ file[3].form = "obj" /\ file[3].id = "WARMUP" /\ file[3].status = "RUNNING"
    /\ get_phase_record("WARMUP") = file[2]

(* C9 *)

\* the log of a run in which each phase reports running and then completion
Scenario ==
    << Rec("obj", "WARMUP", "RUNNING", "obj", "absent", 1),
       Rec("obj", "WARMUP", "COMPLETED", "obj", "absent", 2),
       Rec("obj", "STEADY", "RUNNING", "obj", "absent", 3),
       Rec("obj", "STEADY", "COMPLETED", "obj", "absent", 4) >>

\* the file starts as the scenario does
FollowsScenario ==
    \A i \in 1..Len(file) : i <= Len(Scenario) => file[i] = Scenario[i]

\* C9: on the scenario log the steady latch is never set unless the warm-up
\* latch was set in an earlier state, both are set once the log is processed,
\* and then get_all_records() has exactly the keys WARMUP and STEADY.
C9_ScenarioOrder ==
    /\ [](FollowsScenario =>
            /\ steady_done_event => warmup_done_event
            /\ (warmup_done_event /\ steady_done_event) =>
                    get_all_phase_records = {"WARMUP", "STEADY"}
            /\ Handled >= Len(Scenario) => (warmup_done_event /\ steady_done_event))
    /\ [][(FollowsScenario /\ ~steady_done_event /\ steady_done_event') =>
            warmup_done_event]_vars

\* the whole scenario was processed
C9_Witness ==
    /\ Len(file) >= Len(Scenario)
    /\ FollowsScenario
    /\ rpc = "done"
    /\ warmup_done_event /\ steady_done_event

(* C10 *)

\* a WARMUP completion was processed before any ERROR record
WarmupCompletedCleanly ==
    \E i \in 1..pos :
        /\ IsCompletion(file[i], "WARMUP")
        /\ \A j \in 1..(i - 1) : ~IsErrorRecord(file[j])

\* C10: start_all is entered only with the warm-up latch set and after
\* has_error() returned false, so only when warm-up completed without an
\* error before it; stop_all is entered only after start_all returned and with
\* the steady latch set.
C10_Bracketing ==
    /\ [](mon # "none" => (warmup_done_event /\ WarmupCompletedCleanly))
    /\ [](mon \in {"stopping", "stopped"} => steady_done_event)
    /\ [][(mon = "none" /\ mon' # "none") =>
            (mon' = "starting" /\ warmup_done_event /\ oerr = "False")]_vars
    /\ [][(mon # "stopping" /\ mon' = "stopping") =>
            (mon = "running" /\ steady_done_event /\ oerr = "False")]_vars

\* a run that started and stopped the collectors and ended
C10_Witness ==
    /\ mon = "stopped"
    /\ opc = "done"


-----------------------------------------------------------------------------
(* MonitoringManager: start_all *)

\* the process ids a caller may hand to start_all
Pids == {"pid_a", "pid_b"}

\* what the probe `perf stat -e cycles -- sleep 0.1` can give: stderr without either
\* marker, stderr with "<not supported>", stderr with "<not counted>", or an exception
\* (perf missing, timeout after 5 s)
ProbeOutcomes == {"counted", "not_supported", "not_counted", "exception"}

\* lines 479-491: the value _check_hardware_perf_events returns
_check_hardware_perf_events(outcome) ==
    IF outcome = "exception" THEN FALSE
    ELSE outcome # "not_supported" /\ outcome # "not_counted"

\* (mutant) the full counter set whatever the probe said
PerfEventsAlwaysFull(available) == "full"

\* lines 533-538: the -e argument of perf stat
PerfEvents(available) == IF available THEN "full" ELSE "reduced"

\* lines 558-566: the asprof start command (-e cpu -i 1ms are fixed)
StartCmd(pid, f) == [verb |-> "start", o |-> "collapsed", f |-> f, pid |-> pid]

\* line 628-629: start_all(benchmark_pid) is called and stores the pid
CallStartAll(pid) ==
    /\ mpc = "idle"
    /\ start_result = "none"
    /\ stop_results = << >>
    /\ benchmark_pid' = pid
    /\ mpc' = "s630"
    /\ UNCHANGED <<processes, file_handles, open_handles, hardware_perf_available,
                   collapsed_stacks_file, proc_state, events, asprof_cmds, perf_events,
                   probes, probe_result, entered, start_result, stop_results, to_stop,
                   stop_attempted,
                   nonMonVars>>

\* lines 500-525: start_mpstat, start_iostat, start_sar_network: the output file is
\* opened and its handle stored, then the process is created and stored
StartCollector(name, at, next) ==
    /\ mpc = at
    /\ entered' = entered \cup {name}
    /\ file_handles' = file_handles \cup {name}
    /\ open_handles' = open_handles \cup {name}
    /\ processes' = processes \cup {name}
    /\ proc_state' = [proc_state EXCEPT ![name] = "running"]
    /\ mpc' = next
    /\ UNCHANGED <<benchmark_pid, hardware_perf_available, collapsed_stacks_file, events,
                   asprof_cmds, perf_events, probes, probe_result, start_result,
                   stop_results, to_stop, stop_attempted,
                   nonMonVars>>

\* lines 505, 514, 523: subprocess.Popen raises (the tool is not installed); nothing in
\* start_* or start_all catches it, so start_all ends there
StartCollectorRaises(name, at) ==
    /\ mpc = at
    /\ entered' = entered \cup {name}
    /\ file_handles' = file_handles \cup {name}
    /\ open_handles' = open_handles \cup {name}
    /\ start_result' = "raised"
    /\ mpc' = "idle"
    /\ UNCHANGED <<benchmark_pid, processes, hardware_perf_available,
                   collapsed_stacks_file, proc_state, events, asprof_cmds, perf_events,
                   probes, probe_result, stop_results, to_stop, stop_attempted,
                   nonMonVars>>

start_mpstat == StartCollector("mpstat", "s630", "s631") \/ StartCollectorRaises("mpstat", "s630")

start_iostat == StartCollector("iostat", "s631", "s632") \/ StartCollectorRaises("iostat", "s631")

start_sar_network ==
    StartCollector("sar_network", "s632", "s633") \/ StartCollectorRaises("sar_network", "s632")

\* lines 527-531: start_perf_stat opens its output file
PerfOpen ==
    /\ mpc = "s633"
    /\ entered' = entered \cup {"perf_stat"}
    /\ file_handles' = file_handles \cup {"perf_stat"}
    /\ open_handles' = open_handles \cup {"perf_stat"}
    /\ mpc' = "s532"
    /\ UNCHANGED <<benchmark_pid, processes, hardware_perf_available,
                   collapsed_stacks_file, proc_state, events, asprof_cmds, perf_events,
                   probes, probe_result, start_result, stop_results, to_stop,
                   stop_attempted,
                   nonMonVars>>

\* line 532: the probe runs and its verdict is stored
PerfProbe ==
    /\ mpc = "s532"
    /\ \E outcome \in ProbeOutcomes :
        /\ probe_result' = outcome
        /\ hardware_perf_available' = _check_hardware_perf_events(outcome)
    /\ probes' = probes + 1
    /\ mpc' = "s539"
    /\ UNCHANGED <<benchmark_pid, processes, file_handles, open_handles,
                   collapsed_stacks_file, proc_state, events, asprof_cmds, perf_events,
                   entered, start_result, stop_results, to_stop, stop_attempted,
                   nonMonVars>>

\* lines 533-541: perf stat is launched with the chosen events
PerfLaunch ==
    /\ mpc = "s539"
    /\ perf_events' = PerfEvents(hardware_perf_available)
    /\ processes' = processes \cup {"perf_stat"}
    /\ proc_state' = [proc_state EXCEPT !["perf_stat"] = "running"]
    /\ mpc' = "s634"
    /\ UNCHANGED <<benchmark_pid, file_handles, open_handles, hardware_perf_available,
                   collapsed_stacks_file, events, asprof_cmds, probes, probe_result,
                   entered, start_result, stop_results, to_stop, stop_attempted,
                   nonMonVars>>

\* line 539: subprocess.Popen raises for perf stat
PerfLaunchRaises ==
    /\ mpc = "s539"
    /\ perf_events' = PerfEvents(hardware_perf_available)
    /\ start_result' = "raised"
    /\ mpc' = "idle"
    /\ UNCHANGED <<benchmark_pid, processes, file_handles, open_handles,
                   hardware_perf_available, collapsed_stacks_file, proc_state, events,
                   asprof_cmds, probes, probe_result, entered, stop_results, to_stop,
                   stop_attempted,
                   nonMonVars>>

start_perf_stat == PerfOpen \/ PerfProbe \/ PerfLaunch \/ PerfLaunchRaises

\* lines 546-548: asprof is not installed: start_async_profiler returns, and so does
\* start_all
ProfilerMissing ==
    /\ mpc = "s634"
    /\ entered' = entered \cup {"async_profiler"}
    /\ start_result' = "returned"
    /\ mpc' = "idle"
    /\ UNCHANGED <<benchmark_pid, processes, file_handles, open_handles,
                   hardware_perf_available, collapsed_stacks_file, proc_state, events,
                   asprof_cmds, perf_events, probes, probe_result, stop_results, to_stop,
                   stop_attempted,
                   nonMonVars>>

\* lines 550-566: the stacks file is chosen and the start command built
ProfilerPrepare ==
    /\ mpc = "s634"
    /\ entered' = entered \cup {"async_profiler"}
    /\ collapsed_stacks_file' = "collapsed.txt"
    /\ mpc' = "s569"
    /\ UNCHANGED <<benchmark_pid, processes, file_handles, open_handles,
                   hardware_perf_available, proc_state, events, asprof_cmds, perf_events,
                   probes, probe_result, start_result, stop_results, to_stop,
                   stop_attempted,
                   nonMonVars>>

\* lines 568-577: the start command runs; a non-zero exit or an exception (timeout
\* after 10 s) clears the stacks file; start_all returns either way
ProfilerStart ==
    /\ mpc = "s569"
    /\ asprof_cmds' = Append(asprof_cmds, StartCmd(benchmark_pid, collapsed_stacks_file))
    /\ \E outcome \in {"ok", "nonzero", "exception"} :
        collapsed_stacks_file' = IF outcome = "ok" THEN collapsed_stacks_file ELSE "None"
    /\ start_result' = "returned"
    /\ mpc' = "idle"
    /\ UNCHANGED <<benchmark_pid, processes, file_handles, open_handles,
                   hardware_perf_available, proc_state, events, perf_events, probes,
                   probe_result, entered, stop_results, to_stop, stop_attempted,
                   nonMonVars>>

start_async_profiler == ProfilerMissing \/ ProfilerPrepare \/ ProfilerStart

\* lines 628-635
start_all ==
    \/ \E pid \in Pids : CallStartAll(pid)
    \/ start_mpstat
    \/ start_iostat
    \/ start_sar_network
    \/ start_perf_stat
    \/ start_async_profiler

-----------------------------------------------------------------------------
(* MonitoringManager: stop_all, and the collector processes *)

\* the most calls of stop_all on one manager
MaxStops == 2

\* the order in which `for name, proc in self.processes.items()` visits the collectors:
\* the order start_all inserted them
LoopOrder == <<"mpstat", "iostat", "sar_network">>

\* the number of the stop_all call in progress
Call == Len(stop_results) + 1

Log(name, ev) == [events EXCEPT ![name] = Append(@, [call |-> Call, ev |-> ev])]

\* (mutant) a forced kill as the first signal
GracefulSignalKill(name) == "SIGKILL"

\* lines 646, 656: the signal a collector is first sent
GracefulSignal(name) == IF name = "perf_stat" THEN "SIGINT" ELSE "SIGTERM"

\* (mutant) the stop command asking for another output encoding
StopCmdOtherEncoding(pid, f) == [verb |-> "stop", o |-> "flamegraph", f |-> f, pid |-> pid]

\* lines 589-595: the asprof stop command
StopCmd(pid, f) == [verb |-> "stop", o |-> "collapsed", f |-> f, pid |-> pid]

\* line 639: hasattr(self, 'benchmark_pid')
HasBenchmarkPid == benchmark_pid # "unset"

\* a collector process ends by itself (perf stat -p ends with its target); it stays a
\* zombie until its Popen object polls or waits for it
CollectorExits(name) ==
    /\ proc_state[name] = "running"
    /\ proc_state' = [proc_state EXCEPT ![name] = "zombie"]
    /\ UNCHANGED <<mpc, benchmark_pid, processes, file_handles, open_handles,
                   hardware_perf_available, collapsed_stacks_file, events, asprof_cmds,
                   perf_events, probes, probe_result, entered, start_result,
                   stop_results, to_stop, stop_attempted,
                   nonMonVars>>

\* line 637: stop_all() is called
CallStopAll ==
    /\ mpc = "idle"
    /\ Len(stop_results) < MaxStops
    /\ to_stop' = processes
    /\ stop_attempted' = {}
    /\ mpc' = "t639"
    /\ UNCHANGED <<benchmark_pid, processes, file_handles, open_handles,
                   hardware_perf_available, collapsed_stacks_file, proc_state, events,
                   asprof_cmds, perf_events, probes, probe_result, entered, start_result,
                   stop_results,
                   nonMonVars>>

\* (mutant) line 639 without the guard: reading self.benchmark_pid raises
\* AttributeError when start_all never stored it
AfterPidGuardMissing(has) == IF has THEN "t581" ELSE "raise"

\* lines 639-640: where stop_all goes after hasattr(self, 'benchmark_pid')
AfterPidGuard(has) == IF has THEN "t581" ELSE "t642"

\* line 639
StopAllPidGuard ==
    /\ mpc = "t639"
    /\ IF AfterPidGuard(HasBenchmarkPid) = "raise"
       THEN /\ stop_results' = Append(stop_results, "raised")
            /\ mpc' = "idle"
       ELSE /\ mpc' = AfterPidGuard(HasBenchmarkPid)
            /\ UNCHANGED stop_results
    /\ UNCHANGED <<benchmark_pid, processes, file_handles, open_handles,
                   hardware_perf_available, collapsed_stacks_file, proc_state, events,
                   asprof_cmds, perf_events, probes, probe_result, entered, start_result,
                   to_stop, stop_attempted,
                   nonMonVars>>

\* lines 581-586: no stacks file, or asprof missing: no stop command
StopProfilerSkipped ==
    /\ mpc = "t581"
    /\ \E asprof_exists \in BOOLEAN : collapsed_stacks_file = "None" \/ ~asprof_exists
    /\ mpc' = "t642"
    /\ UNCHANGED <<benchmark_pid, processes, file_handles, open_handles,
                   hardware_perf_available, collapsed_stacks_file, proc_state, events,
                   asprof_cmds, perf_events, probes, probe_result, entered, start_result,
                   stop_results, to_stop, stop_attempted,
                   nonMonVars>>

\* lines 588-606: the stop command runs; every outcome of it is caught
StopProfilerIssued ==
    /\ mpc = "t581"
    /\ collapsed_stacks_file # "None"
    /\ asprof_cmds' = Append(asprof_cmds, StopCmd(benchmark_pid, collapsed_stacks_file))
    /\ mpc' = "t642"
    /\ UNCHANGED <<benchmark_pid, processes, file_handles, open_handles,
                   hardware_perf_available, collapsed_stacks_file, proc_state, events,
                   perf_events, probes, probe_result, entered, start_result,
                   stop_results, to_stop, stop_attempted,
                   nonMonVars>>

\* lines 642-643: perf stat is taken out of self.processes, if it is there
StopPerfPop ==
    /\ mpc = "t642"
    /\ IF "perf_stat" \in processes
       THEN /\ processes' = processes \ {"perf_stat"}
            /\ stop_attempted' = stop_attempted \cup {"perf_stat"}
            /\ mpc' = "t645"
       ELSE /\ mpc' = "t654"
            /\ UNCHANGED <<processes, stop_attempted>>
    /\ UNCHANGED <<benchmark_pid, file_handles, open_handles, hardware_perf_available,
                   collapsed_stacks_file, proc_state, events, asprof_cmds, perf_events,
                   probes, probe_result, entered, start_result, stop_results, to_stop,
                   nonMonVars>>

\* lines 645-646: poll(); a process still running is sent SIGINT, one that has ended is
\* reaped by the poll and sent nothing
StopPerfSignal ==
    /\ mpc = "t645"
    /\ IF proc_state["perf_stat"] = "running"
       THEN /\ events' = Log("perf_stat", GracefulSignal("perf_stat"))
            /\ UNCHANGED proc_state
       ELSE /\ proc_state' = [proc_state EXCEPT !["perf_stat"] = "reaped"]
            /\ UNCHANGED events
    /\ mpc' = "t647"
    /\ UNCHANGED <<benchmark_pid, processes, file_handles, open_handles,
                   hardware_perf_available, collapsed_stacks_file, asprof_cmds,
                   perf_events, probes, probe_result, entered, start_result,
                   stop_results, to_stop, stop_attempted,
                   nonMonVars>>

\* line 647: wait(timeout=5) returns: perf stat has ended
StopPerfWaitReturns ==
    /\ mpc = "t647"
    /\ proc_state' = [proc_state EXCEPT !["perf_stat"] = "reaped"]
    /\ events' = Log("perf_stat", "wait_ok")
    /\ mpc' = "t654"
    /\ UNCHANGED <<benchmark_pid, processes, file_handles, open_handles,
                   hardware_perf_available, collapsed_stacks_file, asprof_cmds,
                   perf_events, probes, probe_result, entered, start_result,
                   stop_results, to_stop, stop_attempted,
                   nonMonVars>>

\* lines 647-648: wait(timeout=5) raises TimeoutExpired: perf stat is still running
StopPerfWaitTimesOut ==
    /\ mpc = "t647"
    /\ proc_state["perf_stat"] = "running"
    /\ events' = Log("perf_stat", "wait_timeout")
    /\ mpc' = "t649"
    /\ UNCHANGED <<benchmark_pid, processes, file_handles, open_handles,
                   hardware_perf_available, collapsed_stacks_file, proc_state,
                   asprof_cmds, perf_events, probes, probe_result, entered, start_result,
                   stop_results, to_stop, stop_attempted,
                   nonMonVars>>

\* line 649: kill()
StopPerfKill ==
    /\ mpc = "t649"
    /\ events' = Log("perf_stat", "SIGKILL")
    /\ mpc' = "t650"
    /\ UNCHANGED <<benchmark_pid, processes, file_handles, open_handles,
                   hardware_perf_available, collapsed_stacks_file, proc_state,
                   asprof_cmds, perf_events, probes, probe_result, entered, start_result,
                   stop_results, to_stop, stop_attempted,
                   nonMonVars>>

\* line 650: wait(timeout=2) returns
StopPerfKillWaitReturns ==
    /\ mpc = "t650"
    /\ proc_state' = [proc_state EXCEPT !["perf_stat"] = "reaped"]
    /\ events' = Log("perf_stat", "wait_ok")
    /\ mpc' = "t654"
    /\ UNCHANGED <<benchmark_pid, processes, file_handles, open_handles,
                   hardware_perf_available, collapsed_stacks_file, asprof_cmds,
                   perf_events, probes, probe_result, entered, start_result,
                   stop_results, to_stop, stop_attempted,
                   nonMonVars>>

\* line 650: wait(timeout=2) raises TimeoutExpired (the process is in uninterruptible
\* sleep and has not died yet). The raise is inside the handler of line 648, so the
\* handler of line 651 does not apply: the exception leaves stop_all
StopPerfKillWaitTimesOut ==
    /\ mpc = "t650"
    /\ proc_state["perf_stat"] = "running"
    /\ events' = Log("perf_stat", "wait_timeout")
    /\ stop_results' = Append(stop_results, "raised")
    /\ mpc' = "idle"
    /\ UNCHANGED <<benchmark_pid, processes, file_handles, open_handles,
                   hardware_perf_available, collapsed_stacks_file, proc_state,
                   asprof_cmds, perf_events, probes, probe_result, entered, start_result,
                   to_stop, stop_attempted,
                   nonMonVars>>

\* the collector the loop of line 654 takes next: the first of self.processes, in
\* insertion order, not yet visited by this call
LoopNext ==
    LET idx == {i \in 1..Len(LoopOrder) : LoopOrder[i] \in processes \ stop_attempted}
    IN  IF idx = {} THEN "none" ELSE LoopOrder[CHOOSE i \in idx : \A j \in idx : i <= j]

\* the collector the loop is at: the last one visited
Current ==
    LET idx == {i \in 1..Len(LoopOrder) : LoopOrder[i] \in stop_attempted}
    IN  LoopOrder[CHOOSE i \in idx : \A j \in idx : i >= j]

\* line 654: the loop takes the next collector, or ends
StopLoopNext ==
    /\ mpc = "t654"
    /\ IF LoopNext = "none"
       THEN mpc' = "t666" /\ UNCHANGED stop_attempted
       ELSE mpc' = "t656" /\ stop_attempted' = stop_attempted \cup {LoopNext}
    /\ UNCHANGED <<benchmark_pid, processes, file_handles, open_handles,
                   hardware_perf_available, collapsed_stacks_file, proc_state, events,
                   asprof_cmds, perf_events, probes, probe_result, entered, start_result,
                   stop_results, to_stop,
                   nonMonVars>>

\* line 656: os.killpg(os.getpgid(pid), SIGTERM); getpgid raises ProcessLookupError
\* for a process that was already waited for
StopLoopSignal ==
    /\ mpc = "t656"
    /\ IF proc_state[Current] = "reaped"
       THEN mpc' = "t659" /\ UNCHANGED events
       ELSE mpc' = "t657" /\ events' = Log(Current, GracefulSignal(Current))
    /\ UNCHANGED <<benchmark_pid, processes, file_handles, open_handles,
                   hardware_perf_available, collapsed_stacks_file, proc_state,
                   asprof_cmds, perf_events, probes, probe_result, entered, start_result,
                   stop_results, to_stop, stop_attempted,
                   nonMonVars>>

\* line 657: wait(timeout=5) returns: the collector has ended
StopLoopWaitReturns ==
    /\ mpc = "t657"
    /\ proc_state' = [proc_state EXCEPT ![Current] = "reaped"]
    /\ events' = Log(Current, "wait_ok")
    /\ mpc' = "t654"
    /\ UNCHANGED <<benchmark_pid, processes, file_handles, open_handles,
                   hardware_perf_available, collapsed_stacks_file, asprof_cmds,
                   perf_events, probes, probe_result, entered, start_result,
                   stop_results, to_stop, stop_attempted,
                   nonMonVars>>

\* lines 657-658: wait(timeout=5) raises TimeoutExpired
StopLoopWaitTimesOut ==
    /\ mpc = "t657"
    /\ proc_state[Current] = "running"
    /\ events' = Log(Current, "wait_timeout")
    /\ mpc' = "t659"
    /\ UNCHANGED <<benchmark_pid, processes, file_handles, open_handles,
                   hardware_perf_available, collapsed_stacks_file, proc_state,
                   asprof_cmds, perf_events, probes, probe_result, entered, start_result,
                   stop_results, to_stop, stop_attempted,
                   nonMonVars>>

\* lines 659-662: os.killpg(os.getpgid(pid), SIGKILL); ProcessLookupError is passed
\* over. The killed process is not waited for.
StopLoopKill ==
    /\ mpc = "t659"
    /\ IF proc_state[Current] = "reaped"
       THEN UNCHANGED <<events, proc_state>>
       ELSE /\ events' = Log(Current, "SIGKILL")
            /\ proc_state' = [proc_state EXCEPT ![Current] = "zombie"]
    /\ mpc' = "t654"
    /\ UNCHANGED <<benchmark_pid, processes, file_handles, open_handles,
                   hardware_perf_available, collapsed_stacks_file, asprof_cmds,
                   perf_events, probes, probe_result, entered, start_result,
                   stop_results, to_stop, stop_attempted,
                   nonMonVars>>

\* (mutant) the handles left open
CloseHandlesNone(handles) == open_handles

\* lines 666-670: every stored handle is closed
CloseHandles(handles) == open_handles \ handles

\* lines 666-671: the handles are closed and stop_all returns
StopCloseHandles ==
    /\ mpc = "t666"
    /\ open_handles' = CloseHandles(file_handles)
    /\ stop_results' = Append(stop_results, "returned")
    /\ mpc' = "idle"
    /\ UNCHANGED <<benchmark_pid, processes, file_handles, hardware_perf_available,
                   collapsed_stacks_file, proc_state, events, asprof_cmds, perf_events,
                   probes, probe_result, entered, start_result, to_stop, stop_attempted,
                   nonMonVars>>

\* lines 637-671
stop_all ==
    \/ CallStopAll
    \/ StopAllPidGuard
    \/ StopProfilerSkipped
    \/ StopProfilerIssued
    \/ StopPerfPop
    \/ StopPerfSignal
    \/ StopPerfWaitReturns
    \/ StopPerfWaitTimesOut
    \/ StopPerfKill
    \/ StopPerfKillWaitReturns
    \/ StopPerfKillWaitTimesOut
    \/ StopLoopNext
    \/ StopLoopSignal
    \/ StopLoopWaitReturns
    \/ StopLoopWaitTimesOut
    \/ StopLoopKill
    \/ StopCloseHandles

(* Specification of one MonitoringManager and its caller: start_all at most once and
   before any stop_all, as run() calls it; stop_all at any time between calls *)

NextMon ==
    \/ start_all
    \/ stop_all
    \/ \E name \in Collectors : CollectorExits(name)

SpecMon == Init /\ [][NextMon]_vars

-----------------------------------------------------------------------------
(* convert_collapsed_to_nested_set: the lines of a collapsed-stacks file.         *)
(*  stack  the frames of the text before the last space, root first              *)
(*  count  the text after the last space: digits, a minus sign and digits, any   *)
(*         other word, or absent                                                 *)

\* the most lines of a stacks file
MaxSamples == 3

Digits(n) == [kind |-> "digits", n |-> n]
Signed(n) == [kind |-> "signed", n |-> n]
Word == [kind |-> "word", n |-> 0]
Absent == [kind |-> "absent", n |-> 0]

Sample(stack, count) == [stack |-> stack, count |-> count]

\* "a 1", "a;b 3", "a;b 2", "a;c 2", "b 1"
ValidSamples ==
    { Sample(<<"a">>, Digits(1)),
      Sample(<<"a", "b">>, Digits(3)), Sample(<<"a", "b">>, Digits(2)),
      Sample(<<"a", "c">>, Digits(2)), Sample(<<"b">>, Digits(1)) }

\* "a;b notanumber", "a;b" and the blank line
MalformedSamples ==
    { Sample(<<"a", "b">>, Word), Sample(<<"a", "b">>, Absent), Sample(<< >>, Absent) }

SampleLines == ValidSamples \cup MalformedSamples

Corpora == UNION { [1..n -> SampleLines] : n \in 0..MaxSamples }

\* "a 1", "a;b 2", "a -1", "a;b -2"
SignedSamples ==
    { Sample(<<"a">>, Digits(1)), Sample(<<"a", "b">>, Digits(2)),
      Sample(<<"a">>, Signed(1)), Sample(<<"a", "b">>, Signed(2)) }

SignedCorpora == UNION { [1..n -> SignedSamples] : n \in 0..MaxSamples }

\* (mutant) int() giving 0 for text that is no number
ParseIntLenient(tok) ==
    IF tok.kind = "digits" THEN [ok |-> TRUE, n |-> tok.n]
    ELSE IF tok.kind = "signed" THEN [ok |-> TRUE, n |-> 0 - tok.n]
    ELSE [ok |-> TRUE, n |-> 0]

\* lines 798-801: int(parts[1]), which accepts a sign before the digits; ok is
\* FALSE when it raises ValueError
ParseInt(tok) ==
    IF tok.kind = "digits" THEN [ok |-> TRUE, n |-> tok.n]
    ELSE IF tok.kind = "signed" THEN [ok |-> TRUE, n |-> 0 - tok.n]
    ELSE [ok |-> FALSE, n |-> 0]

\* lines 790-801: the line is blank, has no space-separated last field, or its last
\* field is no integer: it is passed over
Skipped(line) ==
    \/ line.stack = << >> /\ line.count.kind = "absent"
    \/ line.count.kind = "absent"
    \/ ~ParseInt(line.count).ok

\* line 787 and lines 805-806: a node as it is created
NewNode(path) == [path |-> path, self_value |-> 0]

HasNode(t, path) == \E i \in DOMAIN t : t[i].path = path

RECURSIVE Walk(_, _, _)
\* lines 802-807: the walk down from root along the frames, from frame k on, creating
\* every node that is missing
Walk(t, stack, k) ==
    IF k > Len(stack) THEN t
    ELSE Walk(IF HasNode(t, SubSeq(stack, 1, k)) THEN t
              ELSE Append(t, NewNode(SubSeq(stack, 1, k))),
              stack, k + 1)

\* (mutant) the count assigned, not added
AddSelfOverwrite(old, count) == count

\* line 808: node["self_value"] += count
AddSelf(old, count) == old + count

AddCount(t, stack, count) ==
    [i \in DOMAIN t |->
        IF t[i].path = stack THEN [t[i] EXCEPT !.self_value = AddSelf(@, count)] ELSE t[i]]

\* lines 789-808: one line of the file folded into the tree
Fold(t, line) ==
    IF Skipped(line) THEN t
    ELSE AddCount(Walk(t, line.stack, 1), line.stack, ParseInt(line.count).n)

\* node["children"].values() of the node at path: dict order is creation order
Children(t, path) ==
    SelectSeq(t, LAMBDA n : /\ Len(n.path) = Len(path) + 1
                            /\ SubSeq(n.path, 1, Len(path)) = path)

NodeAt(t, path) == t[CHOOSE i \in DOMAIN t : t[i].path = path]

RECURSIVE Total(_, _)
RECURSIVE SumTotals(_, _, _)
\* lines 810-815: calc_total
Total(t, path) == NodeAt(t, path).self_value + SumTotals(t, Children(t, path), 1)

SumTotals(t, kids, i) ==
    IF i > Len(kids) THEN 0 ELSE Total(t, kids[i].path) + SumTotals(t, kids, i + 1)

\* line 814: every node gets its total_value
WithTotals(t) ==
    [i \in DOMAIN t |->
        [path |-> t[i].path, self_value |-> t[i].self_value,
         total_value |-> Total(t, t[i].path)]]

\* (mutant) ascending order
ComesBeforeAscending(x, y) == x.total_value <= y.total_value

\* lines 823-824: sorted(..., key=total_value, reverse=True) keeps x before a later y
\* unless y's key is greater; equal keys keep their order
ComesBefore(x, y) == x.total_value >= y.total_value

RECURSIVE InsertSorted(_, _, _)
\* y put into the sorted sequence, from position i on
InsertSorted(sorted, y, i) ==
    IF i > Len(sorted) THEN Append(sorted, y)
    ELSE IF ComesBefore(sorted[i], y) THEN InsertSorted(sorted, y, i + 1)
    ELSE SubSeq(sorted, 1, i - 1) \o <<y>> \o SubSeq(sorted, i, Len(sorted))

RECURSIVE Sorted(_, _, _)
Sorted(kids, i, acc) ==
    IF i > Len(kids) THEN acc ELSE Sorted(kids, i + 1, InsertSorted(acc, kids[i], 1))

\* (mutant) the children visited in dict order
ChildrenUnsorted(t, path) == Children(t, path)

\* lines 823-824: the children in the order dfs visits them
SortedChildren(t, path) == Sorted(Children(t, path), 1, << >>)

\* (mutant) children emitted at their parent's level
ChildLevelSame(level) == level

\* line 825: dfs(child, level + 1)
ChildLevel(level) == level + 1

\* lines 821-822: the row of a node; path names the node and is no column of the csv
Row(node, level) ==
    [level |-> level, value |-> node.total_value, self |-> node.self_value,
     label |-> IF node.path = << >> THEN "total" ELSE node.path[Len(node.path)],
     path |-> node.path]

RECURSIVE Dfs(_, _, _)
RECURSIVE DfsEach(_, _, _, _)
\* lines 820-825: dfs
Dfs(t, path, level) ==
    <<Row(NodeAt(t, path), level)>> \o DfsEach(t, SortedChildren(t, path), ChildLevel(level), 1)

DfsEach(t, kids, level, i) ==
    IF i > Len(kids) THEN << >>
    ELSE Dfs(t, kids[i].path, level) \o DfsEach(t, kids, level, i + 1)

\* lines 786-788: root is made and the file opened; open() raising is caught at line
\* 835 and the call returns False
AggOpen ==
    /\ apc = "a786"
    /\ tree' = <<NewNode(<< >>)>>
    /\ IF readable
       THEN apc' = "a789" /\ UNCHANGED agg_result
       ELSE apc' = "done" /\ agg_result' = "False"
    /\ UNCHANGED <<corpus, readable, lineno, rows, nonAggVars>>

\* lines 789-808: the next line of the file
AggReadLine ==
    /\ apc = "a789"
    /\ lineno < Len(corpus)
    /\ lineno' = lineno + 1
    /\ tree' = Fold(tree, corpus[lineno + 1])
    /\ UNCHANGED <<corpus, readable, apc, rows, agg_result, nonAggVars>>

\* lines 810-817: at the end of the file, calc_total(root)
AggCalcTotal ==
    /\ apc = "a789"
    /\ lineno = Len(corpus)
    /\ tree' = WithTotals(tree)
    /\ apc' = "a818"
    /\ UNCHANGED <<corpus, readable, lineno, rows, agg_result, nonAggVars>>

\* lines 818-827: dfs(root, 0)
AggDfs ==
    /\ apc = "a818"
    /\ rows' = Dfs(tree, << >>, 0)
    /\ apc' = "a828"
    /\ UNCHANGED <<corpus, readable, lineno, tree, agg_result, nonAggVars>>

\* lines 828-834: the rows are written and the call returns True
AggWrite ==
    /\ apc = "a828"
    /\ agg_result' = "True"
    /\ apc' = "done"
    /\ UNCHANGED <<corpus, readable, lineno, tree, rows, nonAggVars>>

\* lines 784-837
convert_collapsed_to_nested_set ==
    \/ AggOpen
    \/ AggReadLine
    \/ AggCalcTotal
    \/ AggDfs
    \/ AggWrite

(* Specification of one conversion: any stacks file of up to MaxSamples lines, or a
   file that cannot be opened *)

InitAgg ==
    /\ InitState
    /\ corpus \in Corpora
    /\ readable \in BOOLEAN
    /\ ~readable => corpus = << >>

SpecAgg == InitAgg /\ [][convert_collapsed_to_nested_set]_vars

\* the function called on a readable file whose counts may carry a minus sign
InitAggSigned == InitState /\ corpus \in SignedCorpora /\ readable = TRUE

SpecAggSigned == InitAggSigned /\ [][convert_collapsed_to_nested_set]_vars

\* the rows the conversion gives for the lines, computed in one piece
RECURSIVE FoldAll(_, _, _)
FoldAll(t, lines, i) == IF i > Len(lines) THEN t ELSE FoldAll(Fold(t, lines[i]), lines, i + 1)

Convert(lines) == Dfs(WithTotals(FoldAll(<<NewNode(<< >>)>>, lines, 1)), << >>, 0)

-----------------------------------------------------------------------------
(* MetricsWatcher.start() and stop(), step by step, called by one thread *)

\* the most lines of the metrics file, and the most calls of stop()
MaxStopLines == 2
MaxWatcherStops == 2

\* records that the reader handles without failing
StopLines(n) ==
    { Rec("obj", "WARMUP", "COMPLETED", "obj", "absent", n),
      Rec("obj", "STEADY", "COMPLETED", "obj", "absent", n),
      Rec("obj", "STEADY", "ERROR", "obj", "boom", n) }

otherThanWatcher == <<waitVars, runVars, monVars, aggVars>>

\* lines 371-372: start() is called
StartCall ==
    /\ stpc = "none"
    /\ stpc' = "s373"
    /\ UNCHANGED <<fileVars, watcherVars, otherThanWatcher, kpc, stops, tail_log, delivered>>

\* line 373: while not self.metrics_path.exists()
StartCheckPath ==
    /\ stpc = "s373"
    /\ stpc' = IF exists THEN "s376" ELSE "s374"
    /\ UNCHANGED <<fileVars, watcherVars, otherThanWatcher, kpc, stops, tail_log, delivered>>

\* line 374: time.sleep(0.1), then the condition of the loop again
StartSleep ==
    /\ stpc = "s374"
    /\ stpc' = "s373"
    /\ UNCHANGED <<fileVars, watcherVars, otherThanWatcher, kpc, stops, tail_log, delivered>>

\* lines 376-383: tail is spawned, the reader thread started, and start() returns
StartSpawn ==
    /\ stpc = "s376"
    /\ StartEffect
    /\ stpc' = "returned"
    /\ UNCHANGED <<fileVars, waitVars, runVars>>

\* line 385: stop() is called, by the thread that called start()
StopCall ==
    /\ stpc = "returned"
    /\ kpc = "idle"
    /\ stops < MaxWatcherStops
    /\ kpc' = "k386"
    /\ UNCHANGED <<fileVars, watcherVars, otherThanWatcher, stpc, stops, tail_log, delivered>>

\* line 386: if self.tail_process
StopCheckHandle ==
    /\ kpc = "k386"
    /\ kpc' = IF tail_process # "None" THEN "k387" ELSE "k394"
    /\ UNCHANGED <<fileVars, watcherVars, otherThanWatcher, stpc, stops, tail_log, delivered>>

\* line 387: self.tail_process.terminate()
StopTerminate ==
    /\ kpc = "k387"
    /\ tail_log' = Append(tail_log, "SIGTERM")
    /\ kpc' = "k389"
    /\ UNCHANGED <<fileVars, watcherVars, otherThanWatcher, stpc, stops, delivered>>

\* line 389: wait(timeout=2) returns: tail has exited
StopWaitReturns ==
    /\ kpc = "k389"
    /\ tail_alive' = FALSE
    /\ tail_log' = Append(tail_log, "wait_ok")
    /\ kpc' = "k392"
    /\ UNCHANGED <<fileVars, tail_process, rpc, cur, pos, warmup_done_event,
                   steady_done_event, error_event, error_message, phase_records,
                   otherThanWatcher, stpc, stops, delivered>>

\* lines 389-390: wait(timeout=2) raises TimeoutExpired: tail is still running
StopWaitTimesOut ==
    /\ kpc = "k389"
    /\ tail_alive
    /\ tail_log' = Append(tail_log, "wait_timeout")
    /\ kpc' = "k391"
    /\ UNCHANGED <<fileVars, watcherVars, otherThanWatcher, stpc, stops, delivered>>

\* line 391: self.tail_process.kill()
StopKill ==
    /\ kpc = "k391"
    /\ tail_alive' = FALSE
    /\ tail_log' = Append(tail_log, "SIGKILL")
    /\ kpc' = "k392"
    /\ UNCHANGED <<fileVars, tail_process, rpc, cur, pos, warmup_done_event,
                   steady_done_event, error_event, error_message, phase_records,
                   otherThanWatcher, stpc, stops, delivered>>

\* (mutant) the handle kept after the process was stopped
HandleKept == "Popen"

\* line 392: self.tail_process = None
HandleAfterStop == "None"

StopDropHandle ==
    /\ kpc = "k392"
    /\ tail_process' = HandleAfterStop
    /\ kpc' = "k394"
    /\ UNCHANGED <<fileVars, tail_alive, rpc, cur, pos, warmup_done_event,
                   steady_done_event, error_event, error_message, phase_records,
                   otherThanWatcher, stpc, stops, tail_log, delivered>>

\* lines 394-396: join(timeout=2) comes back whether or not the reader thread has
\* ended, and stop() returns
StopJoin ==
    /\ kpc = "k394"
    /\ stops' = stops + 1
    /\ kpc' = "idle"
    /\ UNCHANGED <<fileVars, watcherVars, otherThanWatcher, stpc, tail_log, delivered>>

\* line 420: tail has exited, its pipe is at end of file: the for loop ends and
\* _read_loop returns
ReadEof ==
    /\ rpc = "loop"
    /\ ~tail_alive
    /\ rpc' = "done"
    /\ UNCHANGED <<fileVars, tail_process, tail_alive, cur, pos, warmup_done_event,
                   steady_done_event, error_event, error_message, phase_records,
                   otherThanWatcher, stopVars>>

\* the steps of start() after the call
StartThread == StartCheckPath \/ StartSleep \/ StartSpawn

(* Specification of a watcher whose owner calls start() once and then stop() *)

NextStop ==
    \/ CreateFile
    \/ \E line \in StopLines(Len(file) + 1) : WriteLine(line, MaxStopLines)
    \/ StartCall
    \/ StartThread
    \/ StopCall
    \/ StopCheckHandle
    \/ StopTerminate
    \/ StopWaitReturns
    \/ StopWaitTimesOut
    \/ StopKill
    \/ StopDropHandle
    \/ StopJoin
    \/ Reader
    \/ ReadEof

SpecStop == Init /\ [][NextStop]_vars

\* the thread inside start() keeps running
SpecStopFair == SpecStop /\ WF_vars(StartThread)

(* Specification of a watcher that is started and stopped while threads wait *)

NextCancel ==
    \/ NextStop
    \/ \E w \in Waiters, p \in TrackedPhases : WaitCall(w, p)
    \/ \E w \in Waiters : WaitReturn(w)

SpecCancel == Init /\ [][NextCancel]_vars

-----------------------------------------------------------------------------
(* Claims about the run and its collectors *)

\* C11: every run that has started the collectors stops them: a run does not end
\* with collectors running that stop_all was never invoked on, also when the steady
\* wait was released by an ERROR record.
\* Refuted: the raise at line 1161 goes to the finally clause (lines 1265-1267), which
\* stops the infrastructure only.
C11_CollectorsAlwaysStopped == opc = "done" => mon # "running"

-----------------------------------------------------------------------------
(* Claims about MonitoringManager *)

\* start_all has ended, one way or the other
StartAllEnded == start_result # "none"

\* stop_all call number k has ended
StopAllEnded(k) == Len(stop_results) >= k

\* the signals among the events of collector c logged by call k
Signals(c, k) ==
    SelectSeq(events[c], LAMBDA e : e.call = k /\ e.ev \in {"SIGINT", "SIGTERM", "SIGKILL"})

\* the asprof commands issued with the given verb
Cmds(verb) == SelectSeq(asprof_cmds, LAMBDA c : c.verb = verb)

\* C12: collector starts are independent: whichever collector fails to start,
\* start_all still enters the start of every other collector and returns normally.
\* Refuted: start_all (lines 628-635) and start_mpstat .. start_perf_stat (500-542)
\* catch nothing, so a Popen that raises ends start_all at once.
C12_StartsIndependent ==
    StartAllEnded =>
        /\ start_result = "returned"
        /\ entered = Collectors \cup {"async_profiler"}

\* no call is in progress and stop_all has been called at least once
StopAllCalled == mpc = "idle" /\ stop_results # << >>

\* C13: collector stops are independent: whatever error or timeout occurs while
\* stopping one collector, stop_all still attempts to stop every remaining one.
\* Refuted: a TimeoutExpired from wait(timeout=2) at line 650, after the forced kill of
\* perf stat, is raised inside an except clause and leaves stop_all before the loop
\* of line 654.
C13_StopsIndependent == StopAllCalled => to_stop \subseteq stop_attempted

\* C14: once stop_all has been invoked, every file handle opened by a start_* call is
\* closed, on every path through stop_all.
\* Refuted on the path of C13: the exception leaves stop_all before lines 666-670.
C14_HandlesReleased == StopAllCalled => open_handles = {}

\* C15: stop_all is idempotent: a second call after a completed first call raises
\* nothing, sends no further signal and issues no further profiler stop command.
\* Refuted: the first call clears neither collapsed_stacks_file nor self.processes
\* (only perf_stat is popped), so the second call runs `asprof stop` again and sends
\* SIGTERM again to a collector the first call killed without waiting for it.
C15_StopIdempotent ==
    (StopAllEnded(1) /\ stop_results[1] = "returned") =>
        /\ StopAllEnded(2) => stop_results[2] = "returned"
        /\ \A c \in Collectors : Signals(c, 2) = << >>
        /\ Len(Cmds("stop")) <= 1

\* event i of collector c is the first one its call logged for c
FirstOfCall(c, i) == i = 1 \/ events[c][i - 1].call < events[c][i].call

\* event i of collector c is a forced kill sent right after a wait of the same call
\* timed out
KillAfterTimeout(c, i) ==
    /\ i > 1
    /\ events[c][i - 1].ev = "wait_timeout"
    /\ events[c][i - 1].call = events[c][i].call

\* C16 as stated: the first signal to every collector is an interrupt (SIGINT), and
\* a forced kill follows only a timed-out wait.
\* Refuted: mpstat, iostat and sar are sent SIGTERM (line 656); only perf stat is
\* sent SIGINT (line 646).
C16_InterruptFirst ==
    \A c \in Collectors : \A i \in 1..Len(events[c]) :
        /\ events[c][i].ev \in {"SIGINT", "SIGTERM"} =>
              FirstOfCall(c, i) /\ events[c][i].ev = "SIGINT"
        /\ events[c][i].ev = "SIGKILL" => KillAfterTimeout(c, i)

\* C16, amended: in every stop_all the first signal to a collector is the graceful
\* one, SIGINT for perf stat and SIGTERM for mpstat, iostat and sar; a forced kill is
\* sent only right after a wait of that call timed out, so it is never the first signal.
C16_GracefulFirst ==
    \A c \in Collectors : \A i \in 1..Len(events[c]) :
        /\ events[c][i].ev \in {"SIGINT", "SIGTERM"} =>
              /\ FirstOfCall(c, i)
              /\ events[c][i].ev = (IF c = "perf_stat" THEN "SIGINT" ELSE "SIGTERM")
        /\ events[c][i].ev = "SIGKILL" => KillAfterTimeout(c, i)
        /\ FirstOfCall(c, i) => events[c][i].ev # "SIGKILL"

\* perf stat and mpstat were both signalled, waited for in vain, and killed
C16_Witness ==
    /\ Len(events["perf_stat"]) >= 3 /\ events["perf_stat"][3].ev = "SIGKILL"
    /\ Len(events["mpstat"]) >= 3 /\ events["mpstat"][3].ev = "SIGKILL"

\* C17: whenever stop_all issues the profiler stop command, the command names the
\* target process id, the output encoding and the output file of the start command
\* that start_all issued on this manager.
C17_StopPairedWithStart ==
    \A i \in 1..Len(asprof_cmds) :
        asprof_cmds[i].verb = "stop" =>
            \E j \in 1..(i - 1) :
                /\ asprof_cmds[j].verb = "start"
                /\ asprof_cmds[j].pid = asprof_cmds[i].pid
                /\ asprof_cmds[j].o = asprof_cmds[i].o
                /\ asprof_cmds[j].f = asprof_cmds[i].f

\* a stop command was issued for the second of the possible targets
C17_Witness ==
    /\ Len(Cmds("stop")) >= 1
    /\ Cmds("stop")[1].pid = "pid_b"
    /\ stop_results # << >>

\* C18: the stopped state of the manager of a run is terminal: once stop_all has been
\* invoked on it, it never starts a collector again, and start_all is invoked on it
\* only while it is fresh, hence never twice.
C18_StoppedTerminal ==
    [][/\ mon \in {"stopping", "stopped", "stop_failed"} =>
              mon' \in {"stopping", "stopped", "stop_failed"}
       /\ (mon' = "starting" /\ mon # "starting") => mon = "none"]_vars

\* a run ended with its manager stopped
C18_Witness == opc = "done" /\ mon = "stopped"

\* start_all never ran on the manager, or ended before creating every process
HandleNeverEstablished ==
    /\ start_result \in {"none", "raised"}
    /\ mpc \notin {"s630", "s631", "s632", "s633", "s532", "s539", "s634", "s569"}

\* C19 as stated: stop_all on a manager on which start_all never ran, or on which a
\* collector's process was never created, raises instead of returning normally.
\* Refuted: lines 639 and 642 guard the profiler and perf stat, and the loop of line
\* 654 visits only the processes that exist; stop_all returns.
C19_StopUnstartedRaises ==
    (StopAllEnded(1) /\ HandleNeverEstablished) => stop_results[1] = "raised"

\* C19, amended: such a stop_all returns normally; it sends nothing to a collector
\* whose process was never created, and on a manager that start_all never ran on it
\* issues no profiler command.
C19_StopUnstartedReturns ==
    HandleNeverEstablished =>
        /\ \A k \in 1..Len(stop_results) : stop_results[k] = "returned"
        /\ \A c \in Collectors : proc_state[c] = "none" => events[c] = << >>
        /\ start_result = "none" => asprof_cmds = << >> /\ open_handles = {}

\* stop_all was called twice on a manager that was never started
C19_Witness == StopAllEnded(2) /\ start_result = "none"

\* C20: the probe runs exactly once per start of perf stat; perf stat is launched
\* with the reduced counter set exactly when the probe found hardware events
\* unavailable or failed itself, with the full set otherwise; and whatever the probe
\* gave, the launch of perf stat follows.
C20_ProbeChoosesEvents ==
    /\ probes = (IF "perf_stat" \in entered /\ mpc # "s532" THEN 1 ELSE 0)
    /\ perf_events = "reduced" <=>
          /\ probe_result \in {"not_supported", "not_counted", "exception"}
          /\ mpc # "s539"
    /\ perf_events = "full" <=> (probe_result = "counted" /\ mpc # "s539")
    /\ mpc = "s539" => ENABLED PerfLaunch

\* perf stat runs with the reduced set after a probe that failed itself
C20_Witness ==
    /\ probe_result = "exception"
    /\ perf_events = "reduced"
    /\ proc_state["perf_stat"] = "running"

-----------------------------------------------------------------------------
(* Claims about convert_collapsed_to_nested_set *)

\* the conversion has returned True
Converted == apc = "done" /\ agg_result = "True"

\* the orderings of n lines
Perms(n) == {f \in [1..n -> 1..n] : \A i, j \in 1..n : f[i] = f[j] => i = j}

Permuted(lines, f) == [i \in 1..Len(lines) |-> lines[f[i]]]

AllValid(lines) == \A i \in 1..Len(lines) : lines[i] \in ValidSamples

\* two children of one node have the same total weight
Ties(t) ==
    \E i, j \in DOMAIN t :
        /\ i # j
        /\ t[i].path # << >>
        /\ Len(t[i].path) = Len(t[j].path)
        /\ SubSeq(t[i].path, 1, Len(t[i].path) - 1) = SubSeq(t[j].path, 1, Len(t[j].path) - 1)
        /\ t[i].total_value = t[j].total_value

RowSet(rs) == {rs[i] : i \in 1..Len(rs)}

\* C21 as stated: every ordering of a multiset of valid lines yields the identical
\* row sequence, also when sibling frames have equal total weight.
\* Refuted: siblings of equal total weight come out in the order their frames were
\* first seen (dict order kept by the stable sort of lines 823-824).
C21_OrderIndependent ==
    (Converted /\ AllValid(corpus)) =>
        \A f \in Perms(Len(corpus)) : Convert(Permuted(corpus, f)) = rows

\* C21, amended: every ordering yields the same rows, and the identical row sequence
\* whenever no two sibling frames have equal total weight.
C21_OrderIndependentWithoutTies ==
    Converted =>
        \A f \in Perms(Len(corpus)) :
            LET other == Convert(Permuted(corpus, f))
            IN  /\ RowSet(other) = RowSet(rows)
                /\ ~Ties(tree) => other = rows

\* three different lines gave a tree of four nodes without ties
C21_Witness ==
    /\ Converted
    /\ Len(corpus) = 3
    /\ corpus[1] # corpus[2] /\ corpus[2] # corpus[3] /\ corpus[1] # corpus[3]
    /\ Len(tree) = 4
    /\ ~Ties(tree)

RECURSIVE CountSum(_, _)
\* the sum of the counts of the valid lines, from line i on
CountSum(lines, i) ==
    IF i > Len(lines) THEN 0
    ELSE (IF lines[i] \in ValidSamples THEN lines[i].count.n ELSE 0) + CountSum(lines, i + 1)

RECURSIVE SelfSum(_, _)
\* the sum of the self column, from row i on
SelfSum(rs, i) == IF i > Len(rs) THEN 0 ELSE rs[i].self + SelfSum(rs, i + 1)

\* C22: weight is conserved: the self column sums to the sum of the counts of the
\* valid lines, and the value of the root row is that same sum.
C22_WeightConserved ==
    Converted =>
        /\ SelfSum(rows, 1) = CountSum(corpus, 1)
        /\ rows[1].value = CountSum(corpus, 1)

\* two valid lines with the same stack, and a malformed line, were converted
C22_Witness ==
    /\ Converted
    /\ \E i, j \in 1..Len(corpus) :
          /\ i # j
          /\ corpus[i] \in ValidSamples /\ corpus[j] \in ValidSamples
          /\ corpus[i].stack = corpus[j].stack
    /\ \E i \in 1..Len(corpus) : corpus[i] \in MalformedSamples
    /\ rows[1].value >= 3

\* the path of the parent of a node that is not root
ParentPath(path) == SubSeq(path, 1, Len(path) - 1)

\* the nearest row before row i that is one level up
NearestAbove(rs, i) ==
    CHOOSE k \in 1..(i - 1) :
        /\ rs[k].level = rs[i].level - 1
        /\ \A m \in (k + 1)..(i - 1) : rs[m].level # rs[i].level - 1

\* C23: the rows are a pre-order walk of the tree: the first row is root at level 0,
\* a row is at most one level below the row before it, and the nearest preceding row
\* one level up is the row of the parent. Every node has one row, at its depth.
C23_PreOrder ==
    Converted =>
        /\ rows[1].level = 0 /\ rows[1].path = << >>
        /\ Len(rows) = Len(tree)
        /\ \A i \in 2..Len(rows) :
              /\ rows[i].level <= rows[i - 1].level + 1
              /\ rows[i].level = Len(rows[i].path)
              /\ rows[i].level > 0
              /\ \E k \in 1..(i - 1) : rows[k].level = rows[i].level - 1
              /\ rows[NearestAbove(rows, i)].path = ParentPath(rows[i].path)

\* a walk that goes down two levels and comes back up one
C23_Witness ==
    /\ Converted
    /\ \E i \in 3..Len(rows) :
          /\ rows[i - 1].level = 2
          /\ rows[i].level = 1

\* path is the start of the stack of line i
Names(lines, i, path) ==
    /\ lines[i] \in ValidSamples
    /\ Len(lines[i].stack) >= Len(path)
    /\ SubSeq(lines[i].stack, 1, Len(path)) = path

\* the number of the first valid line that names the node at path
FirstSeen(lines, path) ==
    CHOOSE i \in 1..Len(lines) :
        /\ Names(lines, i, path)
        /\ \A k \in 1..(i - 1) : ~Names(lines, k, path)

\* the four columns of a row
Columns(r) == <<r.level, r.value, r.self, r.label>>

\* the samples a;b 3, a;c 2, a 1
ExampleCorpus ==
    <<Sample(<<"a", "b">>, Digits(3)), Sample(<<"a", "c">>, Digits(2)), Sample(<<"a">>, Digits(1))>>

\* C24: the children of a node are emitted in descending order of total weight,
\* siblings of equal total weight in the order their frames were first seen in the
\* input; the samples a;b 3, a;c 2, a 1 give (0,6,0,total), (1,6,1,a), (2,3,3,b),
\* (2,2,2,c).
C24_SiblingOrder ==
    Converted =>
        /\ \A i, j \in 2..Len(rows) :
              (i < j /\ ParentPath(rows[i].path) = ParentPath(rows[j].path)) =>
                  /\ rows[i].value >= rows[j].value
                  /\ rows[i].value = rows[j].value =>
                        FirstSeen(corpus, rows[i].path) < FirstSeen(corpus, rows[j].path)
        /\ corpus = ExampleCorpus =>
              [i \in 1..Len(rows) |-> Columns(rows[i])] =
                  << <<0, 6, 0, "total">>, <<1, 6, 1, "a">>, <<2, 3, 3, "b">>, <<2, 2, 2, "c">> >>

\* the samples of the example were converted
C24_Witness == Converted /\ corpus = ExampleCorpus

\* the lines without line i
Without(lines, i) == SubSeq(lines, 1, i - 1) \o SubSeq(lines, i + 1, Len(lines))

\* C25: a malformed line (no count field, or a count that is no integer) is dropped
\* without failing the conversion: the rows are those of the file without that line.
C25_MalformedDropped ==
    (apc = "done" /\ readable) =>
        /\ agg_result = "True"
        /\ \A i \in 1..Len(corpus) :
              corpus[i] \in MalformedSamples => Convert(Without(corpus, i)) = rows

\* "a;b notanumber" was read, valid lines were read too, and no node a;b exists
C25_Witness ==
    /\ Converted
    /\ \E i \in 1..Len(corpus) : corpus[i] = Sample(<<"a", "b">>, Word)
    /\ \E i \in 1..Len(corpus) : corpus[i] \in ValidSamples
    /\ ~HasNode(tree, <<"a", "b">>)

\* C26: an empty input and an unreadable input both yield the empty tree, one row
\* (0,0,0,total), and the conversion does not report failure.
\* Refuted for the unreadable input: open() raises at line 788, the handler of line
\* 835 returns False and no row is written.
C26_EmptyOrUnreadable ==
    (apc = "done" /\ (~readable \/ corpus = << >>)) =>
        /\ agg_result = "True"
        /\ [i \in 1..Len(rows) |-> Columns(rows[i])] = << <<0, 0, 0, "total">> >>

-----------------------------------------------------------------------------
(* Claims about MetricsWatcher.start() and stop() *)

\* the reader thread is inside its for loop and tail is running
ReadLoopRuns == rpc = "loop" /\ tail_alive

\* C27: the lines handed to the parser are, at every moment, the first lines of
\* the metrics file, each once and in the order of the file, whatever was
\* written before tail was spawned; and while the read loop runs with a line of
\* the file not yet handed over, handing over the next one is possible
C27_ReadsFromStart ==
    /\ Len(delivered) <= Len(file)
    /\ delivered = SubSeq(file, 1, Len(delivered))
    /\ (ReadLoopRuns /\ Len(delivered) < Len(file)) => ENABLED ReadLine

\* the whole file, filled to its bound, has been handed to the parser
C27_Witness ==
    /\ stpc = "returned"
    /\ Len(file) = MaxStopLines
    /\ delivered = file

\* start() is waiting for the metrics path: lines 373-374
StartWaits == stpc \in {"s373", "s374"}

\* C28: tail is never spawned before the metrics path exists, and a start() that
\* waits for the path always stops waiting, also when the path never appears
C28_BoundedWait ==
    /\ [](tail_process # "None" => exists)
    /\ (StartWaits ~> ~StartWaits)

\* a call of stop() has returned and no other is under way
StopReturned == kpc = "idle" /\ stops >= 1

\* what stop() may have done to tail: SIGTERM and an exit within the wait, or
\* SIGTERM, an expired wait and SIGKILL
GracefulStop == <<"SIGTERM", "wait_ok">>
ForcedStop == <<"SIGTERM", "wait_timeout", "SIGKILL">>

\* C29: once stop() has returned, tail was sent SIGTERM, was sent SIGKILL exactly
\* when the wait of two seconds expired, is not running, and its handle is
\* dropped, wherever the reader thread is; a later stop() sends nothing and
\* changes nothing of the watcher's tail
C29_StopReleasesTail ==
    /\ [](StopReturned =>
            /\ tail_process = "None"
            /\ ~tail_alive
            /\ tail_log \in {GracefulStop, ForcedStop})
    /\ [][(stops >= 1 /\ kpc # "idle") =>
            UNCHANGED <<tail_process, tail_alive, tail_log>>]_vars

\* stop() was called twice, the first time killing tail by force, and the
\* reader thread is still in the middle of a line
C29_Witness ==
    /\ StopReturned
    /\ stops = MaxWatcherStops
    /\ tail_log = ForcedStop
    /\ rpc \in MidLine

\* stop() has been called at least once
StopInvoked == stops >= 1 \/ kpc # "idle"

\* C30: whatever the reader thread was doing when stop() was called, the reader
\* thread does not end with an exception
C30_CancellationSafe == StopInvoked => rpc # "crashed"

-----------------------------------------------------------------------------
(* Claims about waits, errors and the end of the read loop *)

\* the reader thread has taken a completion record of phase p or an ERROR record
Released(p) ==
    \E i \in 1..pos : IsCompletion(file[i], p) \/ IsErrorRecord(file[i])

\* the reader thread has ended
ReaderEnded == rpc \in {"done", "crashed"}

\* C31: a wait on a phase returns only after the reader thread took a completion
\* record of that phase or an ERROR record, and cannot return before; no step of
\* stop() changes a latch, and once the reader thread has ended no latch changes
\* any more, so a wait that has not been released then never returns
C31_WaitOnlyReleasedByRecord ==
    /\ [](\A w \in Waiters :
            /\ wpc[w] = "returned" => Released(wphase[w])
            /\ (wpc[w] = "waiting" /\ ~Released(wphase[w])) => ~ENABLED WaitReturn(w))
    /\ [][(kpc' # kpc \/ ReaderEnded) =>
            UNCHANGED <<warmup_done_event, steady_done_event, error_event>>]_vars

\* stop() has returned, tail is dead, the reader thread has ended after a WARMUP
\* completion, and a thread still waits on STEADY
C31_Witness ==
    /\ StopReturned
    /\ ~tail_alive
    /\ rpc = "done"
    /\ warmup_done_event
    /\ \E w \in Waiters :
          wpc[w] = "waiting" /\ wphase[w] = "STEADY" /\ ~Released("STEADY")

\* positions of run() right after a phase wait returned: lines 1151 and 1160
AfterWait == {"o1151", "o1160"}

\* positions of run() at a raise of the watcher's error: lines 1152 and 1161
AtRaise == {"o1152", "o1161"}

\* positions of run() from which S3 uploads, the results file and the
\* PostgreSQL publication are produced: lines 1173-1259
Publishing == {"o1173", "o1187", "o1259"}

\* run() is unwinding, or has ended, with the watcher's error
Aborted == exc # << >> /\ exc[1] = "RuntimeError"

\* C32: when run() leaves a phase wait with the error latch set it goes to the
\* raise; the RuntimeError raised carries the phase id and the error text of the
\* ERROR record the reader thread took; the raise leads straight to the finally
\* clause, and the lines that upload, write the results file and publish are
\* reached only with no error latched and no exception
C32_ErrorAbortsRun ==
    /\ [][(opc \in AfterWait /\ error_event /\ opc' # opc) => opc' \in AtRaise]_vars
    /\ [][(opc \in AtRaise /\ opc' # opc) =>
            /\ IsErrorRecord(file[pos])
            /\ exc' = <<"RuntimeError", <<PhaseId(file[pos]), ErrorMsg(file[pos])>> >>
            /\ opc' = "o1266"]_vars
    /\ [](Aborted => opc \in {"o1266", "o1267", "done"})
    /\ [](opc \in Publishing => (~error_event /\ exc = << >>))
    /\ [][Aborted => (Aborted' /\ exc' = exc)]_vars

\* a run that passed the warm-up check, was woken from the steady wait by an
\* ERROR record and ended with its error
C32_Witness ==
    /\ opc = "done"
    /\ mon = "running"
    /\ Aborted
    /\ exc[2] = <<"STEADY", "boom">>

\* both phase latches are set
BothLatched == warmup_done_event /\ steady_done_event

\* C33: once both phase latches are set the reader thread is at the end of the
\* line that set the second one or has left the loop; it takes no further line,
\* and no step changes the record table, the error latch or the error message
C33_FrozenAfterBothLatches ==
    /\ [](BothLatched => rpc \in {"e450", "r426", "done"})
    /\ [][BothLatched =>
            /\ rpc' # "loop"
            /\ UNCHANGED <<pos, phase_records, error_event, error_message>>]_vars

\* both latches were set by completion records, the loop has ended, and an
\* ERROR record written after them stays unread
C33_Witness ==
    /\ BothLatched
    /\ ~error_event
    /\ rpc = "done"
    /\ pos < Len(file)
    /\ IsErrorRecord(file[pos + 1])

\* the reader thread has taken a completion record of phase p
CompletionTaken(p) == \E i \in 1..pos : IsCompletion(file[i], p)

\* C35: a thread that returned from a wait on a phase of which no completion
\* record was taken finds has_error() true and get_error() not None; and when a
\* step of the ERROR branch sets a phase latch, the error latch is set and the
\* error message written already
C35_ErrorObservedByWaiter ==
    /\ [](\A w \in Waiters :
            (wpc[w] = "returned" /\ ~CompletionTaken(wphase[w])) =>
                (has_error /\ get_error # << >>))
    /\ [][\A p \in TrackedPhases :
            (rpc \in {"e449", "e450"} /\ ~Latch(p) /\ Latch(p)') =>
                (error_event /\ error_message # << >>)]_vars

\* a thread was released from its warm-up wait by line 449 and has returned
\* before line 450 ran, with no WARMUP completion in the file
C35_Witness ==
    /\ rpc = "e450"
    /\ ~steady_done_event
    /\ \A i \in 1..Len(file) : ~IsCompletion(file[i], "WARMUP")
    /\ \E w \in Waiters : wpc[w] = "returned" /\ wphase[w] = "WARMUP"

\* C36: in every state, a phase latch that is set comes with the error latch
\* set or with a COMPLETED record of that phase in the record table
C36_RecordBeforeLatch ==
    \A p \in TrackedPhases :
        Latch(p) =>
            \/ error_event
            \/ /\ get_phase_record(p) # NoRecord
               /\ Status(get_phase_record(p)) = "COMPLETED"

\* the three latches
Latches == <<warmup_done_event, steady_done_event, error_event>>

\* C37: line 452 stores every COMPLETED record under its phase id, UNKNOWN when
\* it has none; no step on a COMPLETED record of another phase than WARMUP and
\* STEADY changes a latch; a phase latch goes from unset to set only at lines
\* 449-450 on an ERROR record or at lines 454-463 on a COMPLETED record of its
\* own phase, and the error latch only at line 447
C37_OtherPhasesSetNoLatch ==
    /\ [][(rpc = "c452" /\ rpc' # rpc) =>
            (Status(cur) = "COMPLETED" /\ phase_records'[PhaseId(cur)] = cur)]_vars
    /\ [][(rpc \in {"c452", "c454"} /\ PhaseId(cur) \notin TrackedPhases) =>
            UNCHANGED Latches]_vars
    /\ [][\A p \in TrackedPhases :
            (~Latch(p) /\ Latch(p)') =>
                \/ rpc \in {"e449", "e450"} /\ Status(cur) = "ERROR"
                \/ rpc = "c454" /\ Status(cur) = "COMPLETED" /\ PhaseId(cur) = p]_vars
    /\ [][(~error_event /\ error_event') =>
            (rpc = "e447" /\ Status(cur) = "ERROR")]_vars

\* a COMPLETED record without a phase id and one of COOLDOWN were processed and
\* are in the table, and no latch is set
C37_Witness ==
    /\ rpc = "r426"
    /\ pos = 2
    /\ Status(cur) = "COMPLETED"
    /\ {PhaseId(file[1]), PhaseId(file[2])} = {"UNKNOWN", "COOLDOWN"}
    /\ get_phase_record("UNKNOWN") # NoRecord
    /\ get_phase_record("COOLDOWN") # NoRecord
    /\ Status(get_phase_record("UNKNOWN")) = "COMPLETED"
    /\ Status(get_phase_record("COOLDOWN")) = "COMPLETED"
    /\ Latches = <<FALSE, FALSE, FALSE>>

-----------------------------------------------------------------------------
(* Further claims about the collectors and about the end of run() *)

\* start_all returned and its profiler start did not succeed: asprof is not
\* installed, or the start command failed, timed out or raised
ProfilerStartFailed ==
    /\ start_result = "returned"
    /\ "async_profiler" \in entered
    /\ collapsed_stacks_file = "None"

\* C38: a profiler stop command is issued only on a manager whose profiler start
\* succeeded; and a stop_all on a manager whose profiler start did not succeed
\* issues no stop command and attempts to stop every collector it owns
C38_StopOnlyAfterStartedProfiler ==
    /\ Cmds("stop") # << >> =>
          (collapsed_stacks_file # "None" /\ Cmds("start") # << >>)
    /\ (ProfilerStartFailed /\ StopAllCalled) =>
          (Cmds("stop") = << >> /\ to_stop \subseteq stop_attempted)

\* run() has been left, by return or by an exception
RunExited == opc \in {"done", "left"}

\* C39: whenever run() has been left after variance_control.setup(), the finally
\* clause has called stop_infrastructure() once and then teardown() once
C39_CleanupAlwaysRuns ==
    RunExited => cleanup = <<"stop_infrastructure", "teardown">>

-----------------------------------------------------------------------------
(* Further claims about convert_collapsed_to_nested_set *)

\* C34: every row written has value >= self >= 0, and no row has a value smaller
\* than the value of a row of one of its children
C34_NonNegativeRows ==
    (apc = "done" /\ agg_result = "True") =>
        /\ \A i \in 1..Len(rows) : rows[i].value >= rows[i].self /\ rows[i].self >= 0
        /\ \A i, j \in 1..Len(rows) :
              (rows[j].path # << >> /\ ParentPath(rows[j].path) = rows[i].path) =>
                  rows[i].value >= rows[j].value


====
